---------------------------- MODULE Spec2Model ----------------------------
(***************************************************************************)
(* A model of the Context memory/retrieval service (nikitarogers333/context*)
(* ): the record stores, the write endpoints, the per-type searches, the   *)
(* unified retrieve endpoint, the GitHub webhook, the auto-extraction      *)
(* pipeline and the chunking loop of the global summarizer.                *)
(*                                                                         *)
(* Texts are sequences of one-character strings, so that formatting        *)
(* (f-strings, "\n".join) and len() are computed as the code computes      *)
(* them.  An absent value (Python None / SQL NULL) is the sentinel Null.   *)
(***************************************************************************)
EXTENDS Integers, Sequences, FiniteSets, TLC

VARIABLES
    settings_openai_api_key, \* core/settings.py: is a provider key configured
    conversations,           \* table conversations, in insertion order
    messages,                \* table messages
    insights,                \* table insights
    knowledge,               \* table knowledge
    knowledge_updated,       \* ids of the knowledge rows by updated_at, oldest first
    task_outcomes,           \* table task_outcomes
    weekly_summaries,        \* table weekly_summaries
    repo_events,             \* table repo_events
    next_id,                 \* source of fresh primary keys
    response,                \* what the last handler returned (or raised)
    calls,                   \* collaborator calls made by the last handler, in order
    gs_pc,                   \* generate_global_summary: position in the chunking loop
    gs_lines,                \* generate_global_summary: lines
    gs_chunk_chars,          \* generate_global_summary: req.chunk_chars
    gs_chunks,               \* generate_global_summary: chunks
    gs_buf,                  \* generate_global_summary: buf
    gs_buf_len,              \* generate_global_summary: buf_len
    gs_i,                    \* generate_global_summary: index of the next line
    session_new,             \* auto-extraction: objects db.add()ed, not yet committed
    sessions                 \* update_knowledge: the sessions of the requests in flight

storeVars == <<conversations, messages, insights, knowledge, knowledge_updated,
               task_outcomes,
               weekly_summaries, repo_events, next_id>>
gsVars == <<gs_pc, gs_lines, gs_chunk_chars, gs_chunks, gs_buf, gs_buf_len, gs_i>>
vars == <<settings_openai_api_key, conversations, messages, insights, knowledge,
          knowledge_updated,
          task_outcomes, weekly_summaries, repo_events, next_id, response, calls,
          gs_pc, gs_lines, gs_chunk_chars, gs_chunks, gs_buf, gs_buf_len, gs_i,
          session_new, sessions>>

---------------------------------------------------------------------------
(* Bounds of the model.                                                    *)

MaxStore == 2          \* records held by the searchable tables, in total
MaxK == 2              \* largest result budget k of one search
MaxPayloadMessages == 1 \* messages carried by one create_conversation payload
MaxSessions == 2       \* update_knowledge requests in flight together
EmbeddingRange == 7    \* the embedding space is 0 .. EmbeddingRange-1
MaxCommits == 2        \* commits carried by one push payload
MaxEvents == 3         \* records held by the repo_events table
MaxLines == 3          \* transcript lines handed to the chunking loop
MaxLineLen == 5        \* characters of one transcript line
MaxChunkChars == 5     \* largest chunk budget req.chunk_chars
MaxEmbedCalls == 3     \* embedding calls of one extraction that may fail
MaxSummaryLines == 2   \* lines of the text the reduce call returns

---------------------------------------------------------------------------
(* Texts.                                                                  *)

\* Python None / SQL NULL: a one-element sequence whose element is not a
\* character, hence different from every text.
Null == <<"None">>

\* Python truthiness of an optional string: None and "" are falsy.
Truthy(s) == s # Null /\ s # <<>>

Min(a, b) == IF a < b THEN a ELSE b

SeqRange(s) == {s[i] : i \in 1..Len(s)}

\* {t \in Seq(S) : Len(t) <= n}
SeqsUpTo(S, n) == UNION {[1..m -> S] : m \in 0..n}

\* sep.join(parts)
RECURSIVE Join(_, _)
Join(parts, sep) ==
    IF Len(parts) = 0 THEN <<>>
    ELSE IF Len(parts) = 1 THEN parts[1]
    ELSE parts[1] \o sep \o Join(Tail(parts), sep)

\* The characters the model's texts are written in, and a code for each.
Alphabet == <<"a", "b", "c", "d", "f", "t", "s", "x", "y", "z", ":", " ",
              "\n", "C", "u", "e", "F", "i", "R", "o", "m", "n", "P", "p", "I",
              ",">>
Code(c) == CHOOSE i \in 1..Len(Alphabet) : Alphabet[i] = c

---------------------------------------------------------------------------
(* services/embeddings.py                                                  *)

\* The vector of one text: a function of the text alone (the hash fallback is
\* seeded by hash(t); the hosted model is called with the text alone).  The
\* vector space is one-dimensional here, 0 .. EmbeddingRange-1.
RECURSIVE TextHash(_, _)
TextHash(t, h) ==
    IF Len(t) = 0 THEN h
    ELSE TextHash(Tail(t), (h * 3 + Code(Head(t))) % EmbeddingRange)

Embed(t) == TextHash(t, 0)

\* embed_texts(texts): one vector per input, in order.
embed_texts(texts) == [i \in 1..Len(texts) |-> Embed(texts[i])]

\* The call goes over the network only when a key is configured, and only
\* then can it fail; the hash fallback always returns.
EmbedOutcomes == IF settings_openai_api_key THEN {"ok", "fail"} ELSE {"ok"}

\* The record of one collaborator call in the log of calls.
EmbedCall(outcome) == [fn |-> "embed", outcome |-> outcome]
LlmCall(outcome) == [fn |-> "llm", outcome |-> outcome]

\* pgvector's <-> : the L2 distance of two vectors.
Distance(u, v) == IF u >= v THEN u - v ELSE v - u

---------------------------------------------------------------------------
(* services/llm.py                                                         *)

\* llm_summarize raises RuntimeError when no key is configured; with a key
\* the network call returns or fails.
LlmOutcomes == IF settings_openai_api_key THEN {"ok", "fail"} ELSE {"fail"}

---------------------------------------------------------------------------
(* Input domains.                                                          *)

Projects == {Null, <<>>, <<"a">>}     \* a request's project: None, "" and "a"
RecordProjects == {Null, <<"a">>}     \* a written record's project
Contents == {<<"x">>, <<"y">>}
Queries == {<<"x">>}
Roles == {"user"}
Titles == {<<"t">>}
Subjects == {<<"s">>}
Categories == {"preference", "pattern"}
InsightTypes == {"lesson"}
TaskResults == {"success"}
Confidences == {3, 8}                \* tenths: 0.3 and 0.8
Causes == {Null}
Budgets == 0..MaxK

\* A NULL embedding column (the column is nullable; vectors are >= 0).
NoEmbedding == -1

StoreSize == Len(messages) + Len(insights) + Len(knowledge)
             + Len(task_outcomes) + Len(weekly_summaries)


---------------------------------------------------------------------------
(* Write endpoints.  A handler whose embedding call raises ends without    *)
(* commit: the session is closed and nothing it added is persisted.        *)

EmbeddingFailed(op) ==
    [op |-> op, status |-> "error", error |-> "embedding_failed"]

\* services/chat.py: create_conversation
create_conversation(payload) ==
    /\ Len(conversations) < MaxStore
    /\ StoreSize + Len(payload.messages) <= MaxStore
    /\ \E outcome \in EmbedOutcomes :
         /\ calls' = <<EmbedCall(outcome)>>
         /\ IF outcome = "ok"
            THEN LET cid == Len(conversations) + 1
                     contents == [i \in 1..Len(payload.messages) |->
                                     payload.messages[i].content]
                     embeddings == embed_texts(contents)
                 IN /\ conversations' = Append(conversations,
                           [id |-> cid, project |-> payload.project])
                    /\ messages' = messages \o
                           [i \in 1..Len(payload.messages) |->
                               [conversation_id |-> cid,
                                role |-> payload.messages[i].role,
                                content |-> payload.messages[i].content,
                                embedding |-> embeddings[i]]]
                    /\ response' = [op |-> "create_conversation", status |-> "ok",
                                    id |-> cid, project |-> payload.project]
            ELSE /\ UNCHANGED <<conversations, messages>>
                 /\ response' = EmbeddingFailed("create_conversation")
    /\ UNCHANGED <<settings_openai_api_key, sessions, insights, knowledge, knowledge_updated, task_outcomes,
                   weekly_summaries, repo_events, next_id, gsVars, session_new>>

\* services/knowledge.py: the text a knowledge entry is embedded from
KnowledgeEmbedText(req) == req.subject \o <<":", " ">> \o req.content

\* services/knowledge.py: create_knowledge
create_knowledge(req) ==
    /\ StoreSize < MaxStore
    /\ \E outcome \in EmbedOutcomes :
         /\ calls' = <<EmbedCall(outcome)>>
         /\ IF outcome = "ok"
            THEN LET embeddings == embed_texts(<<KnowledgeEmbedText(req)>>)
                 IN /\ knowledge' = Append(knowledge,
                           [id |-> next_id, category |-> req.category,
                            subject |-> req.subject, content |-> req.content,
                            confidence |-> req.confidence,
                            embedding |-> embeddings[1]])
                    /\ knowledge_updated' = Append(knowledge_updated, next_id)
                    /\ next_id' = next_id + 1
                    /\ response' = [op |-> "create_knowledge", status |-> "ok",
                                    id |-> next_id]
            ELSE /\ UNCHANGED <<knowledge, knowledge_updated, next_id>>
                 /\ response' = EmbeddingFailed("create_knowledge")
    /\ UNCHANGED <<settings_openai_api_key, sessions, conversations, messages, insights,
                   task_outcomes, weekly_summaries, repo_events, gsVars, session_new>>

\* services/insights.py: the text an insight is embedded from
InsightEmbedText(title, content) == title \o <<"\n">> \o content

\* services/insights.py: create_insight
create_insight(req) ==
    /\ StoreSize < MaxStore
    /\ \E outcome \in EmbedOutcomes :
         /\ calls' = <<EmbedCall(outcome)>>
         /\ IF outcome = "ok"
            THEN LET embeddings == embed_texts(<<InsightEmbedText(req.title, req.content)>>)
                 IN /\ insights' = Append(insights,
                           [type |-> req.type, title |-> req.title,
                            content |-> req.content, project |-> req.project,
                            embedding |-> embeddings[1]])
                    /\ response' = [op |-> "create_insight", status |-> "ok",
                                    id |-> Len(insights) + 1]
            ELSE /\ UNCHANGED insights
                 /\ response' = EmbeddingFailed("create_insight")
    /\ UNCHANGED <<settings_openai_api_key, sessions, conversations, messages, knowledge, knowledge_updated,
                   task_outcomes, weekly_summaries, repo_events, next_id, gsVars,
                   session_new>>

\* services/task_outcomes.py: the text a task outcome is embedded from
TaskOutcomeEmbedText(req) ==
    req.task_description
    \o (IF Truthy(req.cause)
        THEN <<"\n", "C", "a", "u", "s", "e", ":", " ">> \o req.cause ELSE <<>>)
    \o (IF Truthy(req.fix)
        THEN <<"\n", "F", "i", "x", ":", " ">> \o req.fix ELSE <<>>)
    \o (IF Truthy(req.recommendation)
        THEN <<"\n", "R", "e", "c", "o", "m", "m", "e", "n", "d", "a", "t", "i",
               "o", "n", ":", " ">> \o req.recommendation ELSE <<>>)

\* services/task_outcomes.py: create_task_outcome
create_task_outcome(req) ==
    /\ StoreSize < MaxStore
    /\ \E outcome \in EmbedOutcomes :
         /\ calls' = <<EmbedCall(outcome)>>
         /\ IF outcome = "ok"
            THEN LET embeddings == embed_texts(<<TaskOutcomeEmbedText(req)>>)
                 IN /\ task_outcomes' = Append(task_outcomes,
                           [project |-> req.project, result |-> req.result,
                            task_description |-> req.task_description,
                            cause |-> req.cause, fix |-> req.fix,
                            recommendation |-> req.recommendation,
                            embedding |-> embeddings[1]])
                    /\ response' = [op |-> "create_task_outcome", status |-> "ok",
                                    id |-> Len(task_outcomes) + 1]
            ELSE /\ UNCHANGED task_outcomes
                 /\ response' = EmbeddingFailed("create_task_outcome")
    /\ UNCHANGED <<settings_openai_api_key, sessions, conversations, messages, insights,
                   knowledge, knowledge_updated, weekly_summaries, repo_events, next_id, gsVars,
                   session_new>>

\* services/summaries.py: create_weekly_summary
create_weekly_summary(req) ==
    /\ StoreSize < MaxStore
    /\ \E outcome \in EmbedOutcomes :
         /\ calls' = <<EmbedCall(outcome)>>
         /\ IF outcome = "ok"
            THEN LET embeddings == embed_texts(<<req.summary>>)
                 IN /\ weekly_summaries' = Append(weekly_summaries,
                           [summary |-> req.summary, embedding |-> embeddings[1]])
                    /\ response' = [op |-> "create_weekly_summary", status |-> "ok",
                                    id |-> Len(weekly_summaries) + 1]
            ELSE /\ UNCHANGED weekly_summaries
                 /\ response' = EmbeddingFailed("create_weekly_summary")
    /\ UNCHANGED <<settings_openai_api_key, sessions, conversations, messages, insights,
                   knowledge, knowledge_updated, task_outcomes, repo_events, next_id, gsVars,
                   session_new>>

\* uuid.UUID(s) succeeds exactly on the texts that spell a key.
IsUuid(s) == \E d \in 1..9 : s = <<ToString(d)>>
UuidOf(s) == CHOOSE d \in 1..9 : s = <<ToString(d)>>

\* The ids a client sends: every key the store can hold, one more, and a text
\* that is no UUID.
KeyTexts == {<<ToString(d)>> : d \in 1..MaxStore}
IdTexts == KeyTexts \cup {<<ToString(MaxStore + 1)>>, <<"x">>}

SelectCall(table, id, outcome) ==
    [fn |-> "select", outcome |-> outcome, table |-> table, id |-> id]

\* The statement raised inside db.execute and nothing caught it.
Unhandled(op, id, error) ==
    [op |-> op, status |-> "error", error |-> error, id |-> id]

\* select(...).where(Table.id == entry_id) with the text of the request bound
\* to a UUID column.  A text that is no UUID either fails in the driver or
\* matches no row.
SelectOutcomes(id) == IF IsUuid(id) THEN {"ok"} ELSE {"raised", "ok"}

\* Insights and weekly summaries are keyed by their position in the table.
KeyedRows(table, id) ==
    IF ~IsUuid(id) THEN {}
    ELSE {i \in 1..Len(table) :
             IF "id" \in DOMAIN table[i] THEN table[i].id = UuidOf(id)
             ELSE i = UuidOf(id)}

NotFoundId(op, id) ==
    [op |-> op, status |-> "error", error |-> "not_found", id |-> id]

\* The sequence of ids without the id.
Without(ids, id) == SelectSeq(ids, LAMBDA x : x # id)

\* updated_at has onupdate=func.now(): a row written by an UPDATE becomes the
\* most recently updated one.
Touched(ids, id) == Append(Without(ids, id), id)

\* update_knowledge with the confidence left as it was.
UpdatedEntryKeepsConfidence(entry, req, embedding) ==
    [id |-> entry.id, category |-> req.category, subject |-> req.subject,
     content |-> req.content, confidence |-> entry.confidence,
     embedding |-> embedding]

\* services/knowledge.py: update_knowledge, the assignments to the entry
UpdatedEntry(entry, req, embedding) ==
    [id |-> entry.id, category |-> req.category, subject |-> req.subject,
     content |-> req.content, confidence |-> req.confidence,
     embedding |-> embedding]

\* services/knowledge.py: update_knowledge
update_knowledge(entry_id, req) ==
    /\ \E selected \in SelectOutcomes(entry_id) :
         IF selected = "raised"
         THEN /\ calls' = <<SelectCall("knowledge", entry_id, selected)>>
              /\ UNCHANGED <<knowledge, knowledge_updated>>
              /\ response' = Unhandled("update_knowledge", entry_id, "statement_error")
         ELSE IF KeyedRows(knowledge, entry_id) = {}
         THEN /\ calls' = <<SelectCall("knowledge", entry_id, selected)>>
              /\ UNCHANGED <<knowledge, knowledge_updated>>
              /\ response' = NotFoundId("update_knowledge", entry_id)
         ELSE \E outcome \in EmbedOutcomes :
              /\ calls' = <<SelectCall("knowledge", entry_id, selected),
                            EmbedCall(outcome)>>
              /\ IF outcome = "ok"
                 THEN LET i == CHOOSE j \in KeyedRows(knowledge, entry_id) : TRUE
                          embeddings == embed_texts(<<KnowledgeEmbedText(req)>>)
                      IN /\ knowledge' = [knowledge EXCEPT ![i] =
                                UpdatedEntry(knowledge[i], req, embeddings[1])]
                         /\ knowledge_updated' =
                              Touched(knowledge_updated, knowledge[i].id)
                         /\ response' = [op |-> "update_knowledge", status |-> "ok",
                                         id |-> entry_id, req |-> req]
                 ELSE /\ UNCHANGED <<knowledge, knowledge_updated>>
                      /\ response' = [op |-> "update_knowledge", status |-> "error",
                                      error |-> "embedding_failed", id |-> entry_id]
    /\ UNCHANGED <<settings_openai_api_key, sessions, conversations, messages, insights,
                   task_outcomes, weekly_summaries, repo_events, next_id, gsVars,
                   session_new>>

---------------------------------------------------------------------------
(* Vector search: WHERE embedding IS NOT NULL AND <scope>                  *)
(*                ORDER BY embedding <-> q_emb LIMIT k                     *)

\* (col == P) | (col IS NULL) with include_general, col == P without.
ProjectMatch(project, include_general, row_project) ==
    IF include_general
    THEN row_project = project \/ row_project = Null
    ELSE row_project = project

\* A message classified as general whatever its conversation's project.
MessageProjectUnjoined(m) == Null

\* The project of a message is that of its conversation (the join).
MessageProject(m) == conversations[m.conversation_id].project

\* retrieve and search_messages: "if req.project is not None"
MessageScope(project, include_general, m) ==
    project # Null => ProjectMatch(project, include_general, MessageProject(m))

\* retrieve (insights, task outcomes) and search_insights: "if req.project"
RecordScope(project, include_general, r) ==
    Truthy(project) => ProjectMatch(project, include_general, r.project)

HasEmbedding(r) == r.embedding # NoEmbedding

MessageCandidates(project, include_general) ==
    {i \in 1..Len(messages) :
        HasEmbedding(messages[i]) /\ MessageScope(project, include_general, messages[i])}

ScopedCandidates(table, project, include_general) ==
    {i \in 1..Len(table) :
        HasEmbedding(table[i]) /\ RecordScope(project, include_general, table[i])}

EmbeddedRows(table) == {i \in 1..Len(table) : HasEmbedding(table[i])}

\* The orders in which the store may scan a set of rows: the order of rows at
\* equal distance is not determined by the query.
Scans(rows) ==
    {s \in [1..Cardinality(rows) -> rows] :
        \A i, j \in 1..Cardinality(rows) : i # j => s[i] # s[j]}

RowDistance(table, q_emb, i) == Distance(table[i].embedding, q_emb)

\* Insert row i into a list sorted by ascending distance.
RECURSIVE InsertByDistance(_, _, _, _)
InsertByDistance(sorted, i, table, q_emb) ==
    IF Len(sorted) = 0 THEN <<i>>
    ELSE IF RowDistance(table, q_emb, Head(sorted)) <= RowDistance(table, q_emb, i)
         THEN <<Head(sorted)>> \o InsertByDistance(Tail(sorted), i, table, q_emb)
         ELSE <<i>> \o sorted

\* The rows in scan order, unsorted.
OrderByScan(scan, table, q_emb) == scan

\* ORDER BY embedding <-> q_emb, over the rows in scan order.
RECURSIVE OrderByDistance(_, _, _)
OrderByDistance(scan, table, q_emb) ==
    IF Len(scan) = 0 THEN <<>>
    ELSE InsertByDistance(
             OrderByDistance(SubSeq(scan, 1, Len(scan) - 1), table, q_emb),
             scan[Len(scan)], table, q_emb)

\* LIMIT k
Limit(rows, k) == SubSeq(rows, 1, Min(k, Len(rows)))

\* One vector query: the positions of the rows it returns, in order.
VectorQuery(scan, table, q_emb, k) == Limit(OrderByDistance(scan, table, q_emb), k)

\* services/retrieve.py: RetrieveRequest
RetrieveRequests ==
    {r \in [query : Queries, project : Projects, include_general : BOOLEAN,
            k_messages : Budgets, k_insights : Budgets, k_knowledge : Budgets,
            k_outcomes : Budgets, k_summaries : Budgets] :
        r.k_messages + r.k_insights + r.k_knowledge + r.k_outcomes + r.k_summaries
            <= MaxK}

\* One "await db.execute(stmt)" of a vector query in the log of calls.
StoreCall(table, q_emb, limit) ==
    [fn |-> "query", outcome |-> "ok", table |-> table, q_emb |-> q_emb,
     limit |-> limit]

\* The rows each of the five queries of retrieve may return: one list per
\* order in which the store scans the candidates.
MessagesSection(req, q_emb) ==
    {VectorQuery(scan, messages, q_emb, req.k_messages) :
        scan \in Scans(MessageCandidates(req.project, req.include_general))}

\* The insights query cut by the budget of the messages.
InsightsSectionSharedBudget(req, q_emb) ==
    {VectorQuery(scan, insights, q_emb, req.k_messages) :
        scan \in Scans(ScopedCandidates(insights, req.project, req.include_general))}

InsightsSection(req, q_emb) ==
    {VectorQuery(scan, insights, q_emb, req.k_insights) :
        scan \in Scans(ScopedCandidates(insights, req.project, req.include_general))}

\* The knowledge query filtered by the request's project.
KnowledgeSectionScoped(req, q_emb) ==
    {VectorQuery(scan, knowledge, q_emb, req.k_knowledge) :
        scan \in Scans(IF Truthy(req.project) THEN {} ELSE EmbeddedRows(knowledge))}

KnowledgeSection(req, q_emb) ==
    {VectorQuery(scan, knowledge, q_emb, req.k_knowledge) :
        scan \in Scans(EmbeddedRows(knowledge))}

TaskOutcomesSection(req, q_emb) ==
    {VectorQuery(scan, task_outcomes, q_emb, req.k_outcomes) :
        scan \in Scans(ScopedCandidates(task_outcomes, req.project,
                                        req.include_general))}

SummariesSection(req, q_emb) ==
    {VectorQuery(scan, weekly_summaries, q_emb, req.k_summaries) :
        scan \in Scans(EmbeddedRows(weekly_summaries))}

\* The calls of retrieve with one embedding call in front of every query.
RetrieveCallsReembed(req, outcome) ==
    IF outcome = "ok"
    THEN LET q_emb == embed_texts(<<req.query>>)[1] IN
         <<EmbedCall("ok"), StoreCall("messages", q_emb, req.k_messages),
           EmbedCall("ok"), StoreCall("insights", q_emb, req.k_insights),
           EmbedCall("ok"), StoreCall("knowledge", q_emb, req.k_knowledge),
           EmbedCall("ok"), StoreCall("task_outcomes", q_emb, req.k_outcomes),
           EmbedCall("ok"), StoreCall("weekly_summaries", q_emb, req.k_summaries)>>
    ELSE <<EmbedCall(outcome)>>

\* The calls of retrieve, in program order: the embedding call of line 45,
\* then, if it returned, the five queries.
RetrieveCalls(req, outcome) ==
    IF outcome = "ok"
    THEN LET q_emb == embed_texts(<<req.query>>)[1] IN
         <<EmbedCall("ok"),
           StoreCall("messages", q_emb, req.k_messages),
           StoreCall("insights", q_emb, req.k_insights),
           StoreCall("knowledge", q_emb, req.k_knowledge),
           StoreCall("task_outcomes", q_emb, req.k_outcomes),
           StoreCall("weekly_summaries", q_emb, req.k_summaries)>>
    ELSE <<EmbedCall(outcome)>>

\* services/retrieve.py: retrieve.  The response lists hold the rows each
\* query returned (msg_rows, ins_rows, kn_rows, to_rows, ws_rows).
retrieve(req) ==
    /\ \E outcome \in EmbedOutcomes :
         /\ calls' = RetrieveCalls(req, outcome)
         /\ IF outcome = "ok"
            THEN LET q_emb == embed_texts(<<req.query>>)[1] IN
                 \E ms \in MessagesSection(req, q_emb),
                    is \in InsightsSection(req, q_emb),
                    ks \in KnowledgeSection(req, q_emb),
                    ts \in TaskOutcomesSection(req, q_emb),
                    ws \in SummariesSection(req, q_emb) :
                   response' =
                     [op |-> "retrieve", status |-> "ok", req |-> req,
                      messages |-> ms, insights |-> is, knowledge |-> ks,
                      task_outcomes |-> ts, summaries |-> ws]
            ELSE response' = EmbeddingFailed("retrieve")
    /\ UNCHANGED <<settings_openai_api_key, sessions, storeVars, gsVars, session_new>>

\* services/schemas.py: SearchRequest
SearchRequests ==
    [query : Queries, project : Projects, include_general : BOOLEAN, k : Budgets]

\* services/search.py: search_messages
search_messages(payload) ==
    /\ \E outcome \in EmbedOutcomes :
         /\ calls' = IF outcome = "ok"
                   THEN <<EmbedCall(outcome),
                          StoreCall("messages", embed_texts(<<payload.query>>)[1], payload.k)>>
                   ELSE <<EmbedCall(outcome)>>
         /\ IF outcome = "ok"
            THEN LET q_emb == embed_texts(<<payload.query>>)[1] IN
                 \E scan \in Scans(MessageCandidates(payload.project,
                                                     payload.include_general)) :
                   response' = [op |-> "search_messages", status |-> "ok",
                                req |-> payload,
                                hits |-> VectorQuery(scan, messages, q_emb, payload.k)]
            ELSE response' = EmbeddingFailed("search_messages")
    /\ UNCHANGED <<settings_openai_api_key, sessions, storeVars, gsVars, session_new>>

\* services/schemas.py: InsightSearch (with a query, no type filter)
\* An enumerated request field left at None; enumerated values are strings.
NoneEnum == "<None>"

InsightSearches ==
    [query : Queries, project : Projects, type : {NoneEnum}, include_global : BOOLEAN,
     k : Budgets]

\* The positions of a table's rows from the last inserted to the first: the
\* order of created_at descending.
NewestFirst(table) == [j \in 1..Len(table) |-> Len(table) + 1 - j]

\* A listing: the ordered positions that pass the filter, cut at k.
Listing(order, Keep(_), k) == Limit(SelectSeq(order, Keep), k)

\* "if req.project:" on a text
FieldFilter(wanted, value) == Truthy(wanted) => value = wanted

\* "if req.type:" / "if req.category:" / "if req.result:"
EnumFilter(wanted, value) == (wanted # NoneEnum /\ wanted # "") => value = wanted

\* services/insights.py: search_insights
search_insights(req) ==
    /\ IF Truthy(req.query)
       THEN \E outcome \in EmbedOutcomes :
            /\ calls' = IF outcome = "ok"
                      THEN <<EmbedCall(outcome),
                             StoreCall("insights", embed_texts(<<req.query>>)[1], req.k)>>
                      ELSE <<EmbedCall(outcome)>>
            /\ IF outcome = "ok"
               THEN LET q_emb == embed_texts(<<req.query>>)[1] IN
                    \E scan \in Scans({i \in ScopedCandidates(insights, req.project,
                                                              req.include_global) :
                                         EnumFilter(req.type, insights[i].type)}) :
                      response' = [op |-> "search_insights", status |-> "ok",
                                   req |-> req,
                                   hits |-> VectorQuery(scan, insights, q_emb, req.k)]
               ELSE response' = EmbeddingFailed("search_insights")
       ELSE /\ calls' = <<StoreCall("insights", NoEmbedding, req.k)>>
            /\ response' =
                 [op |-> "search_insights", status |-> "ok", req |-> req,
                  hits |-> Listing(NewestFirst(insights),
                             LAMBDA i : /\ RecordScope(req.project, req.include_global,
                                                       insights[i])
                                        /\ EnumFilter(req.type, insights[i].type),
                             req.k)]
    /\ UNCHANGED <<settings_openai_api_key, sessions, storeVars, gsVars, session_new>>

\* services/schemas.py: KnowledgeSearch (with a query, no category filter)
KnowledgeSearches == [query : Queries, category : {NoneEnum}, k : Budgets]

\* The position of the knowledge row carrying the id.
KnowledgeRow(id) == CHOOSE i \in 1..Len(knowledge) : knowledge[i].id = id

\* order_by(KnowledgeEntry.created_at.desc()): keys are handed out in order of
\* creation.
KnowledgeNewestFirst ==
    LET byId == [j \in 1..Len(knowledge) |->
                    CHOOSE i \in 1..Len(knowledge) :
                        Cardinality({h \in 1..Len(knowledge) :
                                        knowledge[h].id > knowledge[i].id}) = j - 1]
    IN byId

\* order_by(KnowledgeEntry.updated_at.desc())
KnowledgeLastUpdatedFirst ==
    [j \in 1..Len(knowledge_updated) |->
        KnowledgeRow(knowledge_updated[Len(knowledge_updated) + 1 - j])]

\* services/knowledge.py: search_knowledge
search_knowledge(req) ==
    /\ IF Truthy(req.query)
       THEN \E outcome \in EmbedOutcomes :
            /\ calls' = IF outcome = "ok"
                      THEN <<EmbedCall(outcome),
                             StoreCall("knowledge", embed_texts(<<req.query>>)[1], req.k)>>
                      ELSE <<EmbedCall(outcome)>>
            /\ IF outcome = "ok"
               THEN LET q_emb == embed_texts(<<req.query>>)[1] IN
                    \E scan \in Scans({i \in EmbeddedRows(knowledge) :
                                         EnumFilter(req.category,
                                                     knowledge[i].category)}) :
                      response' = [op |-> "search_knowledge", status |-> "ok",
                                   req |-> req,
                                   hits |-> VectorQuery(scan, knowledge, q_emb, req.k)]
               ELSE response' = EmbeddingFailed("search_knowledge")
       ELSE /\ calls' = <<StoreCall("knowledge", NoEmbedding, req.k)>>
            /\ response' =
                 [op |-> "search_knowledge", status |-> "ok", req |-> req,
                  hits |-> Listing(KnowledgeLastUpdatedFirst,
                             LAMBDA i : EnumFilter(req.category, knowledge[i].category),
                             req.k)]
    /\ UNCHANGED <<settings_openai_api_key, sessions, storeVars, gsVars, session_new>>

\* services/task_outcomes.py: search_task_outcomes; its project filter has no
\* include_general.
search_task_outcomes(req) ==
    /\ IF Truthy(req.query)
       THEN \E outcome \in EmbedOutcomes :
            /\ calls' = IF outcome = "ok"
                      THEN <<EmbedCall(outcome),
                             StoreCall("task_outcomes", embed_texts(<<req.query>>)[1],
                                       req.k)>>
                      ELSE <<EmbedCall(outcome)>>
            /\ IF outcome = "ok"
               THEN LET q_emb == embed_texts(<<req.query>>)[1] IN
                    \E scan \in Scans({i \in EmbeddedRows(task_outcomes) :
                                         /\ FieldFilter(req.project,
                                                        task_outcomes[i].project)
                                         /\ EnumFilter(req.result,
                                                        task_outcomes[i].result)}) :
                      response' = [op |-> "search_task_outcomes", status |-> "ok",
                                   req |-> req,
                                   hits |-> VectorQuery(scan, task_outcomes, q_emb,
                                                        req.k)]
               ELSE response' = EmbeddingFailed("search_task_outcomes")
       ELSE /\ calls' = <<StoreCall("task_outcomes", NoEmbedding, req.k)>>
            /\ response' =
                 [op |-> "search_task_outcomes", status |-> "ok", req |-> req,
                  hits |-> Listing(NewestFirst(task_outcomes),
                             LAMBDA i : /\ FieldFilter(req.project,
                                                       task_outcomes[i].project)
                                        /\ EnumFilter(req.result,
                                                       task_outcomes[i].result),
                             req.k)]
    /\ UNCHANGED <<settings_openai_api_key, sessions, storeVars, gsVars, session_new>>

---------------------------------------------------------------------------
(* The store and its endpoints.                                            *)

NoResponse == [op |-> "none", status |-> "ok"]

GsIdle ==
    /\ gs_pc = "idle" /\ gs_lines = <<>> /\ gs_chunk_chars = 0
    /\ gs_chunks = <<>> /\ gs_buf = <<>> /\ gs_buf_len = 0 /\ gs_i = 0

EmptyStore ==
    /\ conversations = <<>> /\ messages = <<>> /\ insights = <<>>
    /\ knowledge = <<>> /\ knowledge_updated = <<>>
    /\ task_outcomes = <<>> /\ weekly_summaries = <<>>
    /\ repo_events = <<>> /\ next_id = 1

Init ==
    /\ settings_openai_api_key \in BOOLEAN
    /\ sessions = <<>>
    /\ EmptyStore
    /\ response = NoResponse
    /\ calls = <<>>
    /\ GsIdle
    /\ session_new = <<>>

ConversationPayloads ==
    [project : RecordProjects,
     messages : SeqsUpTo([role : Roles, content : Contents], MaxPayloadMessages)
                    \ {<<>>}]

KnowledgeRequests ==
    [category : Categories, subject : Subjects, content : Contents,
     confidence : Confidences]

\* The knowledge entries written under Spec, where only the text matters.
KnowledgeCreates ==
    {r \in KnowledgeRequests : r.category = "preference" /\ r.confidence = 8}

InsightCreates ==
    [type : InsightTypes, project : RecordProjects, title : Titles, content : Contents]

TaskOutcomeCreates ==
    [project : RecordProjects, result : TaskResults, task_description : Contents,
     cause : Causes, fix : {Null}, recommendation : {Null}]

WeeklySummaryCreates == [summary : Contents]

\* The client reads the response; the next request follows.
Return ==
    /\ response # NoResponse
    /\ response' = NoResponse
    /\ calls' = <<>>
    /\ session_new' = <<>>
    /\ UNCHANGED <<settings_openai_api_key, sessions, storeVars, gsVars>>

Idle == response = NoResponse

Next ==
    \/ Idle /\ \E payload \in ConversationPayloads : create_conversation(payload)
    \/ Idle /\ \E req \in KnowledgeCreates : create_knowledge(req)
    \/ Idle /\ \E req \in InsightCreates : create_insight(req)
    \/ Idle /\ \E req \in TaskOutcomeCreates : create_task_outcome(req)
    \/ Idle /\ \E req \in WeeklySummaryCreates : create_weekly_summary(req)
    \/ Idle /\ \E id \in KeyTexts, req \in KnowledgeCreates : update_knowledge(id, req)
    \/ Idle /\ \E req \in RetrieveRequests : retrieve(req)
    \/ Idle /\ \E payload \in SearchRequests : search_messages(payload)
    \/ Idle /\ \E req \in InsightSearches : search_insights(req)
    \/ Idle /\ \E req \in KnowledgeSearches : search_knowledge(req)
    \/ Return

Spec == Init /\ [][Next]_vars

---------------------------------------------------------------------------
(* Properties of the searches.                                             *)

\* The scope the specification gives a search whose project is set (not
\* None): the project itself, and with include_general the general records.
InScope(project, include_general, row_project) ==
    \/ row_project = project
    \/ include_general /\ row_project = Null

ListsOf(rows) == {rows[i] : i \in 1..Len(rows)}

ProjectOfMessageRow(i) == conversations[messages[i].conversation_id].project

RetrieveOk == response.op = "retrieve" /\ response.status = "ok"

\* C1: in every project-scoped vector search with project P set (the
\* messages, insights and task-outcome sections of retrieve, search_messages,
\* search_insights), every returned record has project = P, or project = null
\* when include_general is true; a message has its conversation's project.
Claim_C1_ScopeFilter ==
    /\ (RetrieveOk /\ response.req.project # Null) =>
         /\ \A i \in ListsOf(response.messages) :
               InScope(response.req.project, response.req.include_general,
                       ProjectOfMessageRow(i))
         /\ \A i \in ListsOf(response.insights) :
               InScope(response.req.project, response.req.include_general,
                       insights[i].project)
         /\ \A i \in ListsOf(response.task_outcomes) :
               InScope(response.req.project, response.req.include_general,
                       task_outcomes[i].project)
    /\ (response.op = "search_messages" /\ response.status = "ok"
        /\ response.req.project # Null) =>
         \A i \in ListsOf(response.hits) :
            InScope(response.req.project, response.req.include_general,
                    ProjectOfMessageRow(i))
    /\ (response.op = "search_insights" /\ response.status = "ok"
        /\ response.req.project # Null) =>
         \A i \in ListsOf(response.hits) :
            InScope(response.req.project, response.req.include_global,
                    insights[i].project)

\* The rows of a table eligible for a request: a non-null embedding, and in
\* scope when the request's project is set.
EligibleScoped(table, req) ==
    {i \in 1..Len(table) :
        /\ table[i].embedding # NoEmbedding
        /\ req.project # Null =>
              InScope(req.project, req.include_general, table[i].project)}

EligibleMessages(req) ==
    {i \in 1..Len(messages) :
        /\ messages[i].embedding # NoEmbedding
        /\ req.project # Null =>
              InScope(req.project, req.include_general, ProjectOfMessageRow(i))}

EligibleAll(table) == {i \in 1..Len(table) : table[i].embedding # NoEmbedding}

\* C2: each list returned by retrieve has length exactly min(k, number of
\* eligible records of its type), k being that type's budget.
Claim_C2_Budget ==
    RetrieveOk =>
      /\ Len(response.messages)
           = Min(response.req.k_messages, Cardinality(EligibleMessages(response.req)))
      /\ Len(response.insights)
           = Min(response.req.k_insights,
                 Cardinality(EligibleScoped(insights, response.req)))
      /\ Len(response.knowledge)
           = Min(response.req.k_knowledge, Cardinality(EligibleAll(knowledge)))
      /\ Len(response.task_outcomes)
           = Min(response.req.k_outcomes,
                 Cardinality(EligibleScoped(task_outcomes, response.req)))
      /\ Len(response.summaries)
           = Min(response.req.k_summaries, Cardinality(EligibleAll(weekly_summaries)))

\* A list of rows of a table is in ascending distance to the query text, and
\* no row of `eligible` outside the list is strictly closer than a row in it.
Nearest(rows, table, query, eligible) ==
    /\ \A i, j \in 1..Len(rows) :
          i < j => Distance(Embed(query), table[rows[i]].embedding)
                     <= Distance(Embed(query), table[rows[j]].embedding)
    /\ \A out \in eligible \ ListsOf(rows) : \A i \in 1..Len(rows) :
          Distance(Embed(query), table[out].embedding)
            >= Distance(Embed(query), table[rows[i]].embedding)

CreateOps == {"create_conversation", "create_knowledge", "create_insight",
              "create_task_outcome", "create_weekly_summary", "create_repo_event"}

EmbeddingCallFailed ==
    \E i \in 1..Len(calls) : calls[i].fn = "embed" /\ calls[i].outcome = "fail"

\* C8: on every primary-path write endpoint, a failure of the embedding call
\* never makes the write fail: the write succeeds (and the record is stored
\* with a null embedding).
Claim_C8_WriteSurvivesEmbeddingFailure ==
    (response.op \in CreateOps /\ EmbeddingCallFailed) => response.status = "ok"

---------------------------------------------------------------------------
(* The knowledge entries alone: create, update.                            *)

NextKnowledge ==
    \/ Idle /\ \E req \in KnowledgeRequests : create_knowledge(req)
    \/ Idle /\ \E id \in KeyTexts, req \in KnowledgeRequests :
                 update_knowledge(id, req)
    \/ Return

SpecKnowledge == Init /\ [][NextKnowledge]_vars

UpdateOk == response.op = "update_knowledge" /\ response.status = "ok"

\* C9: after update_knowledge on the id of a created entry, exactly one
\* record has that id; its category, subject, content and confidence are the
\* request's; its embedding is that of the new "subject: content"; the number
\* of entries is unchanged and every other entry is unchanged.
Thm_C9_KnowledgeUpdate ==
    [][UpdateOk' =>
        /\ Cardinality({i \in 1..Len(knowledge') :
                           knowledge'[i].id = UuidOf(response'.id)}) = 1
        /\ \A i \in 1..Len(knowledge') :
              knowledge'[i].id = UuidOf(response'.id) =>
                /\ knowledge'[i].category = response'.req.category
                /\ knowledge'[i].subject = response'.req.subject
                /\ knowledge'[i].content = response'.req.content
                /\ knowledge'[i].confidence = response'.req.confidence
                /\ knowledge'[i].embedding
                     = Embed(response'.req.subject \o <<":", " ">>
                             \o response'.req.content)
        /\ Len(knowledge') = Len(knowledge)
        /\ \A i \in 1..Len(knowledge) :
              knowledge[i].id # UuidOf(response'.id) => knowledge'[i] = knowledge[i]
    ]_vars

\* An entry was updated to confidence 0.3 and new content while another entry
\* is stored beside it.
Wit_C9_KnowledgeUpdate ==
    /\ UpdateOk
    /\ response.req.confidence = 3
    /\ Len(knowledge) = 2
    /\ \E i \in 1..2 : /\ knowledge[i].id = UuidOf(response.id)
                       /\ knowledge[i].confidence = 3
                       /\ knowledge[3 - i].confidence = 8
                       /\ knowledge[3 - i].content # knowledge[i].content

---------------------------------------------------------------------------
(* services/global_summaries.py: the chunking loop of                      *)
(* generate_global_summary.                                                *)

\* The transcript lines: every rendered row is a non-empty text without a
\* line break of its own.  Lines differ in length and in their first
\* character.
TranscriptLines ==
    UNION {{l \in [1..n -> {"a", "b"}] : \A i \in 2..n : l[i] = "a"} :
              n \in 1..MaxLineLen}

ChunkBudgets == 1..MaxChunkChars

\* The loop body with the flush test made on the buffer alone.
ChunkStepLateFlush(chunks, buf, buf_len, line, chunk_chars) ==
    LET l == Len(line) + 1 IN
    IF Len(buf) > 0 /\ buf_len > chunk_chars
    THEN [chunks |-> Append(chunks, Join(buf, <<"\n">>)),
          buf |-> <<line>>, buf_len |-> l]
    ELSE [chunks |-> chunks, buf |-> Append(buf, line), buf_len |-> buf_len + l]

\* The loop body losing the line that triggers a flush.
ChunkStepDropsLine(chunks, buf, buf_len, line, chunk_chars) ==
    LET l == Len(line) + 1 IN
    IF Len(buf) > 0 /\ buf_len + l > chunk_chars
    THEN [chunks |-> Append(chunks, Join(buf, <<"\n">>)),
          buf |-> <<>>, buf_len |-> 0]
    ELSE [chunks |-> chunks, buf |-> Append(buf, line), buf_len |-> buf_len + l]

\* One iteration of "for line in lines": flush the buffer when the line would
\* overflow it, then append the line.
ChunkStep(chunks, buf, buf_len, line, chunk_chars) ==
    LET l == Len(line) + 1 IN
    IF Len(buf) > 0 /\ buf_len + l > chunk_chars
    THEN [chunks |-> Append(chunks, Join(buf, <<"\n">>)),
          buf |-> <<line>>, buf_len |-> l]
    ELSE [chunks |-> chunks, buf |-> Append(buf, line), buf_len |-> buf_len + l]

\* The state in which the rows are fetched and rendered, the loop about to run.
InitSummary ==
    /\ settings_openai_api_key \in BOOLEAN
    /\ sessions = <<>>
    /\ EmptyStore
    /\ response = NoResponse
    /\ calls = <<>>
    /\ session_new = <<>>
    /\ gs_pc = "loop"
    /\ gs_lines \in SeqsUpTo(TranscriptLines, MaxLines)
    /\ gs_chunk_chars \in ChunkBudgets
    /\ gs_chunks = <<>>
    /\ gs_buf = <<>>
    /\ gs_buf_len = 0
    /\ gs_i = 1

GsLoop ==
    /\ gs_pc = "loop"
    /\ gs_i <= Len(gs_lines)
    /\ LET r == ChunkStep(gs_chunks, gs_buf, gs_buf_len, gs_lines[gs_i],
                          gs_chunk_chars)
       IN /\ gs_chunks' = r.chunks
          /\ gs_buf' = r.buf
          /\ gs_buf_len' = r.buf_len
    /\ gs_i' = gs_i + 1
    /\ UNCHANGED <<settings_openai_api_key, sessions, storeVars, response, calls,
                   session_new, gs_pc, gs_lines, gs_chunk_chars>>

\* "if buf: chunks.append(...)" after the loop.
GsFlush ==
    /\ gs_pc = "loop"
    /\ gs_i > Len(gs_lines)
    /\ gs_chunks' = IF Len(gs_buf) > 0
                    THEN Append(gs_chunks, Join(gs_buf, <<"\n">>))
                    ELSE gs_chunks
    /\ gs_pc' = "chunked"
    /\ UNCHANGED <<settings_openai_api_key, sessions, storeVars, response, calls,
                   session_new, gs_lines, gs_chunk_chars, gs_buf, gs_buf_len, gs_i>>

NextSummary == GsLoop \/ GsFlush

SpecSummary == InitSummary /\ [][NextSummary]_vars

\* The elements of a finite set of integers, ascending.
RECURSIVE Ascending(_)
Ascending(S) ==
    IF S = {} THEN <<>>
    ELSE LET m == CHOOSE x \in S : \A y \in S : x <= y
         IN <<m>> \o Ascending(S \ {m})

\* The chunks that cutting `lines` after the positions `cuts` gives.
ChunksOfCuts(lines, cuts) ==
    LET ends == Ascending(cuts \cup {Len(lines)})
    IN [j \in 1..Len(ends) |->
          Join(SubSeq(lines, IF j = 1 THEN 1 ELSE ends[j - 1] + 1, ends[j]),
               <<"\n">>)]

\* `chunks` holds every line of `lines` exactly once, in order, each chunk
\* made of one or more whole consecutive lines.
IsPartition(chunks, lines) ==
    IF Len(lines) = 0 THEN chunks = <<>>
    ELSE \E cuts \in SUBSET (1..(Len(lines) - 1)) :
            chunks = ChunksOfCuts(lines, cuts)

\* C4: the chunking loop puts every line in exactly one chunk: the lines of
\* all chunks, in chunk order, are the original line sequence (nothing
\* dropped, duplicated or reordered) and no chunk is empty.
Thm_C4_ChunkCoverage ==
    gs_pc = "chunked" =>
      /\ IsPartition(gs_chunks, gs_lines)
      /\ Join(gs_chunks, <<"\n">>) = Join(gs_lines, <<"\n">>)
      /\ \A j \in 1..Len(gs_chunks) : Len(gs_chunks[j]) > 0

\* Three lines were packed into two or more chunks, one of them of two lines.
Wit_C4_ChunkCoverage ==
    /\ gs_pc = "chunked"
    /\ Len(gs_lines) = 3
    /\ Len(gs_chunks) = 2
    /\ gs_lines[1] # gs_lines[2]

\* C5: every chunk is at most chunk_chars characters long, unless it is one
\* single line that alone exceeds the budget; a line is never split across
\* chunks.
Thm_C5_ChunkBudget ==
    /\ \A j \in 1..Len(gs_chunks) :
          \/ Len(gs_chunks[j]) <= gs_chunk_chars
          \/ \E i \in 1..Len(gs_lines) :
                gs_chunks[j] = gs_lines[i] /\ Len(gs_lines[i]) > gs_chunk_chars
    /\ \A j \in 1..Len(gs_chunks) : \E a, b \in 1..Len(gs_lines) :
          a <= b /\ gs_chunks[j] = Join(SubSeq(gs_lines, a, b), <<"\n">>)

\* A line longer than the budget forms a chunk of its own beside a chunk of
\* two lines that fills the budget.
Wit_C5_ChunkBudget ==
    /\ gs_pc = "chunked"
    /\ \E j \in 1..Len(gs_chunks) : Len(gs_chunks[j]) > gs_chunk_chars
    /\ \E j \in 1..Len(gs_chunks) :
          Len(gs_chunks[j]) <= gs_chunk_chars /\ "\n" \in SeqRange(gs_chunks[j])

---------------------------------------------------------------------------
(* services/auto_extract.py                                                *)

\* What the LLM returned: a text json.loads rejects, or a JSON value.  An
\* object is a record of its keys; an absent key reads as null (dict.get).
NotJson == [t |-> "invalid"]
JNull == [t |-> "null"]
JStr(s) == [t |-> "string", v |-> s]
JNum(n) == [t |-> "number", v |-> n]
JList(items) == [t |-> "array", v |-> items]
JObj(fields) == [t |-> "object", v |-> fields]

\* str.strip()
RECURSIVE LStrip(_)
LStrip(s) ==
    IF Len(s) > 0 /\ Head(s) \in {" ", "\n"} THEN LStrip(Tail(s)) ELSE s

RECURSIVE RStrip(_)
RStrip(s) ==
    IF Len(s) > 0 /\ s[Len(s)] \in {" ", "\n"}
    THEN RStrip(SubSeq(s, 1, Len(s) - 1)) ELSE s

Strip(s) == LStrip(RStrip(s))

\* _safe_list
_safe_list(x) == IF x.t = "array" THEN x.v ELSE <<>>

\* (item.get(key) or "").strip() for a key holding a string or null
ItemText(item, key) ==
    LET x == item.v[key] IN Strip(IF x.t = "string" THEN x.v ELSE <<>>)

\* item.get(key) for a key holding a free text or null
ItemRaw(item, key) ==
    LET x == item.v[key] IN IF x.t = "string" THEN x.v ELSE Null

\* item.get(key) or default, for a key holding an enumerated value or null
\* (enumerated values are written as TLA+ strings, free texts as sequences)
ItemOr(item, key, default) ==
    LET x == item.v[key] IN IF x.t = "string" /\ x.v # "" THEN x.v ELSE default

\* "[:5]" on each list, and the confidence of an item without one (tenths).
ExtractLimit == 5
DefaultConfidence == 10

\* The result of the "except Exception" branch around json.loads, and that
\* branch re-raising instead.
ParseFailureRaises == [status |-> "raised", created |-> 0, error |-> "none"]
ParseFailure == [status |-> "ok", created |-> 0, error |-> "invalid_json"]

\* The running state of one extraction: status is "running" until an
\* exception leaves the function; `embeds` counts the embedding calls made.
ExtractStart == [status |-> "running", created |-> 0, added |-> <<>>, embeds |-> 0]

Raised(acc) == [acc EXCEPT !.status = "raised"]

\* "emb = (await embed_texts([text]))[0]": the fail_at-th call raises.
EmbedItem(acc, fail_at) ==
    IF acc.embeds + 1 = fail_at
    THEN [acc EXCEPT !.status = "raised", !.embeds = @ + 1]
    ELSE [acc EXCEPT !.embeds = @ + 1]

\* db.add(obj); created += 1
AddItem(acc, obj) ==
    [acc EXCEPT !.added = Append(@, obj), !.created = @ + 1]

\* The body of "for item in _safe_list(data.get("insights"))[:5]"
ExtractInsight(acc, item, conversation, fail_at) ==
    IF item.t # "object" THEN Raised(acc)
    ELSE LET title == ItemText(item, "title")
             content == ItemText(item, "content")
         IN IF title = <<>> \/ content = <<>> THEN acc
            ELSE LET e == EmbedItem(acc, fail_at)
                 IN IF e.status = "raised" THEN e
                    ELSE AddItem(e, [kind |-> "insight",
                                     type |-> ItemOr(item, "type", "lesson"),
                                     project |-> conversation.project,
                                     title |-> title,
                                     content |-> content,
                                     source_conversation_id |-> conversation.id,
                                     embedding |-> Embed(InsightEmbedText(title, content))])

\* float(item.get("confidence") or 1.0): "bad" for a value float() rejects.
ItemConfidence(item) ==
    LET x == item.v["confidence"]
    IN IF x.t = "number" THEN (IF x.v = 0 THEN DefaultConfidence ELSE x.v)
       ELSE IF x.t = "string" /\ x.v # <<>> THEN -1
       ELSE DefaultConfidence

\* The body of "for item in _safe_list(data.get("knowledge"))[:5]"
ExtractKnowledge(acc, item, conversation, fail_at) ==
    IF item.t # "object" THEN Raised(acc)
    ELSE LET subject == ItemText(item, "subject")
             content == ItemText(item, "content")
         IN IF subject = <<>> \/ content = <<>> THEN acc
            ELSE LET e == EmbedItem(acc, fail_at)
                 IN IF e.status = "raised" THEN e
                    ELSE IF ItemConfidence(item) < 0 THEN Raised(e)
                    ELSE AddItem(e, [kind |-> "knowledge",
                                     category |-> ItemOr(item, "category", "insight"),
                                     subject |-> subject,
                                     content |-> content,
                                     confidence |-> ItemConfidence(item),
                                     source_conversation_id |-> conversation.id,
                                     embedding |-> Embed(subject \o <<"\n">> \o content)])

\* The body of "for item in _safe_list(data.get("task_outcomes"))[:5]"
ExtractTaskOutcome(acc, item, conversation, fail_at) ==
    IF item.t # "object" THEN Raised(acc)
    ELSE LET task_description == ItemText(item, "task_description")
         IN IF task_description = <<>> THEN acc
            ELSE LET e == EmbedItem(acc, fail_at)
                 IN IF e.status = "raised" THEN e
                    ELSE AddItem(e, [kind |-> "task_outcome",
                                     project |-> conversation.project,
                                     result |-> ItemOr(item, "result", "success"),
                                     task_description |-> task_description,
                                     cause |-> ItemRaw(item, "cause"),
                                     fix |-> ItemRaw(item, "fix"),
                                     recommendation |-> ItemRaw(item, "recommendation"),
                                     conversation_id |-> conversation.id,
                                     embedding |-> Embed(task_description)])

ExtractItem(kind, acc, item, conversation, fail_at) ==
    IF kind = "insights" THEN ExtractInsight(acc, item, conversation, fail_at)
    ELSE IF kind = "knowledge" THEN ExtractKnowledge(acc, item, conversation, fail_at)
    ELSE ExtractTaskOutcome(acc, item, conversation, fail_at)

\* One of the three loops, stopping at the first exception.
RECURSIVE ExtractLoop(_, _, _, _, _)
ExtractLoop(kind, acc, items, conversation, fail_at) ==
    IF acc.status = "raised" \/ Len(items) = 0 THEN acc
    ELSE ExtractLoop(kind, ExtractItem(kind, acc, Head(items), conversation, fail_at),
                     Tail(items), conversation, fail_at)

\* data.get(key) on the parsed value, sliced: lines 77, 96 and 114.
ExtractList(kind, acc, data, conversation, fail_at) ==
    IF acc.status = "raised" THEN acc
    ELSE IF data.t # "object" THEN Raised(acc)
    ELSE LET l == _safe_list(data.v[kind])
         IN ExtractLoop(kind, acc, SubSeq(l, 1, Min(ExtractLimit, Len(l))),
                        conversation, fail_at)

ExtractAll(data, conversation, fail_at) ==
    ExtractList("task_outcomes",
        ExtractList("knowledge",
            ExtractList("insights", ExtractStart, data, conversation, fail_at),
            data, conversation, fail_at),
        data, conversation, fail_at)

\* The "Build compact transcript" loop.
\* The transcript with the contents taken as they are, whitespace included.
RECURSIVE transcript_lines_untrimmed(_)
transcript_lines_untrimmed(msgs) ==
    IF Len(msgs) = 0 THEN <<>>
    ELSE LET m == Head(msgs)
             content == IF m.content = Null THEN <<>> ELSE m.content
         IN (IF content = <<>> THEN <<>>
             ELSE <<<<m.role>> \o <<":", " ">> \o content>>)
            \o transcript_lines_untrimmed(Tail(msgs))

RECURSIVE transcript_lines(_)
transcript_lines(msgs) ==
    IF Len(msgs) = 0 THEN <<>>
    ELSE LET m == Head(msgs)
             content == Strip(IF m.content = Null THEN <<>> ELSE m.content)
         IN (IF content = <<>> THEN <<>>
             ELSE <<<<m.role>> \o <<":", " ">> \o content>>)
            \o transcript_lines(Tail(msgs))

EmbedCalls(n, fail_at) ==
    [i \in 1..n |-> EmbedCall(IF i = fail_at THEN "fail" ELSE "ok")]

ExtractResponse(r, conversation, msgs, text) ==
    [op |-> "auto_extract", status |-> r.status, created |-> r.created,
     error |-> r.error, conversation |-> conversation, messages |-> msgs,
     text |-> text]

\* services/auto_extract.py: auto_extract_from_conversation.  It adds to the
\* caller's session and leaves the commit to the caller.
auto_extract_from_conversation(conversation, msgs, llm, text, fail_at) ==
    /\ IF transcript_lines(msgs) = <<>>
       THEN /\ response' = ExtractResponse([status |-> "ok", created |-> 0,
                                            error |-> "none"],
                                           conversation, msgs, JNull)
            /\ calls' = <<>>
            /\ session_new' = <<>>
       ELSE IF llm = "fail"
       THEN /\ response' = ExtractResponse([status |-> "raised", created |-> 0,
                                            error |-> "none"],
                                           conversation, msgs, JNull)
            /\ calls' = <<LlmCall("fail")>>
            /\ session_new' = <<>>
       ELSE IF text = NotJson
       THEN /\ response' = ExtractResponse(ParseFailure, conversation, msgs, text)
            /\ calls' = <<LlmCall("ok")>>
            /\ session_new' = <<>>
       ELSE LET r == ExtractAll(text, conversation, fail_at)
            IN /\ response' =
                    ExtractResponse([status |-> IF r.status = "raised"
                                                THEN "raised" ELSE "ok",
                                     created |-> r.created, error |-> "none"],
                                    conversation, msgs, text)
               /\ calls' = <<LlmCall("ok")>> \o EmbedCalls(r.embeds, fail_at)
               /\ session_new' = r.added
    /\ UNCHANGED <<settings_openai_api_key, sessions, storeVars, gsVars>>

\* Inputs of the extraction.
ExtractConversations == [id : {1}, project : RecordProjects]

ExtractMessages ==
    SeqsUpTo([role : Roles, content : {Null, <<" ">>, <<"x">>}], MaxPayloadMessages)

GoodInsight ==
    JObj([title |-> JStr(<<"t">>), content |-> JStr(<<"x">>), type |-> JNull])
BlankInsight ==
    JObj([title |-> JStr(<<" ">>), content |-> JStr(<<"x">>), type |-> JStr("idea")])
KnowledgeItem(confidence) ==
    JObj([subject |-> JStr(<<"s">>), content |-> JStr(<<"y">>),
          category |-> JNull, confidence |-> confidence])
GoodOutcome ==
    JObj([task_description |-> JStr(<<"x">>), result |-> JNull, cause |-> JNull,
          fix |-> JNull, recommendation |-> JNull])
CausedOutcome ==
    JObj([task_description |-> JStr(<<"x">>), result |-> JNull,
          cause |-> JStr(<<"c">>), fix |-> JNull, recommendation |-> JNull])
\* An insight whose type is none of the declared ones.
OddInsight ==
    JObj([title |-> JStr(<<"t">>), content |-> JStr(<<"x">>), type |-> JStr("note")])

InsightLists ==
    {JNull, JStr(<<"x">>), JList(<<GoodInsight>>), JList(<<BlankInsight>>),
     JList(<<GoodInsight, JStr(<<"x">>)>>), JList(<<OddInsight>>)}
KnowledgeLists ==
    {JNull, JList(<<KnowledgeItem(JNum(3))>>), JList(<<KnowledgeItem(JNull)>>),
     JList(<<KnowledgeItem(JStr(<<"h">>))>>)}
OutcomeLists == {JList(<<>>), JList(<<GoodOutcome>>), JList(<<CausedOutcome>>)}

LlmTexts ==
    {NotJson, JList(<<>>)}
    \cup {JObj([insights |-> i, knowledge |-> k, task_outcomes |-> o]) :
            i \in InsightLists, k \in KnowledgeLists, o \in OutcomeLists}

\* Which embedding call of the extraction fails (0: none).
FailAts == IF settings_openai_api_key THEN 0..MaxEmbedCalls ELSE {0}

NextExtract ==
    \/ Idle /\ \E conversation \in ExtractConversations, msgs \in ExtractMessages,
                  llm \in LlmOutcomes, text \in LlmTexts, fail_at \in FailAts :
                 auto_extract_from_conversation(conversation, msgs, llm, text, fail_at)
    \/ Return

SpecExtract == Init /\ [][NextExtract]_vars

ExtractDone == response.op = "auto_extract"
EmbedCallsMade == {i \in 1..Len(calls) : calls[i].fn = "embed"}

\* C6: when the LLM response is not parseable as JSON, the extraction returns
\* created = 0 with the soft error tag, adds no record to the session or the
\* store, makes no embedding call, and does not raise.
Thm_C6_MalformedJson ==
    (ExtractDone /\ response.text = NotJson) =>
      /\ response.status = "ok"
      /\ response.created = 0
      /\ response.error = "invalid_json"
      /\ session_new = <<>>
      /\ StoreSize = 0
      /\ EmbedCallsMade = {}

\* The LLM answered a non-empty transcript with a text that is not JSON.
Wit_C6_MalformedJson ==
    /\ ExtractDone
    /\ response.text = NotJson
    /\ calls = <<LlmCall("ok")>>
    /\ transcript_lines(response.messages) # <<>>

\* C7 (as stated): the extraction never propagates an exception, and after a
\* failed LLM call, a failed embedding call or a JSON value of an unexpected
\* shape it reports zero items created and leaves no extracted record.
Claim_C7_NeverPropagates ==
    ExtractDone =>
      /\ response.status = "ok"
      /\ (\E i \in 1..Len(calls) : calls[i].outcome = "fail") =>
            (response.created = 0 /\ session_new = <<>>)

---------------------------------------------------------------------------
(* services/repo_events.py                                                 *)

\* message.split("\n")[0]
RECURSIVE FirstLine(_)
FirstLine(s) ==
    IF Len(s) = 0 \/ Head(s) = "\n" THEN <<>>
    ELSE <<Head(s)>> \o FirstLine(Tail(s))

\* x or "" for an optional text
OrEmpty(x) == IF x = Null THEN <<>> ELSE x

\* The rows follow models/chat.py, which declares every table of the service
\* with its nullable embedding column; models/repo_event.py, models/insight.py
\* and models/task_outcome.py are earlier revisions of three of its classes.
\* NewEvent is RepoEvent(...) as the webhook constructs it, its embedding
\* still unset; EventText is the text embedded for it.
NewEvent(event_type, title, body) ==
    [event_type |-> event_type, title |-> title, body |-> body,
     embedding |-> NoEmbedding]

EventText(evt) == evt.title \o <<"\n">> \o evt.body

CommitEvent(c) == NewEvent("commit", FirstLine(c.message), c.message)

PullRequestEvent(pr) == NewEvent("pr", pr.title, OrEmpty(pr.body))

ReleaseEvent(rel) ==
    NewEvent("release",
             IF rel.name # <<>> THEN rel.name ELSE rel.tag_name,
             OrEmpty(rel.body))

\* The chain with its push branch only.
event_objects_push_only(payload) ==
    IF "commits" \in DOMAIN payload
    THEN [i \in 1..Len(payload.commits) |-> CommitEvent(payload.commits[i])]
    ELSE <<>>

\* The if / elif / elif chain over the payload's keys.
event_objects(payload) ==
    IF "commits" \in DOMAIN payload
    THEN [i \in 1..Len(payload.commits) |-> CommitEvent(payload.commits[i])]
    ELSE IF "pull_request" \in DOMAIN payload
    THEN <<PullRequestEvent(payload.pull_request)>>
    ELSE IF "release" \in DOMAIN payload
    THEN <<ReleaseEvent(payload.release)>>
    ELSE <<>>

\* The zip pairing every object with the first embedding.
AttachFirstEmbedding(events, embeddings) ==
    [i \in 1..Len(events) |->
        IF Len(embeddings) > 0
        THEN [events[i] EXCEPT !.embedding = embeddings[1]] ELSE events[i]]

\* "for evt, emb in zip(event_objects, embeddings): evt.embedding = emb"
AttachEmbeddings(events, embeddings) ==
    [i \in 1..Len(events) |->
        IF i <= Len(embeddings)
        THEN [events[i] EXCEPT !.embedding = embeddings[i]] ELSE events[i]]

\* One embedding call per event, the events before the failing call keeping
\* their embeddings.
EmbeddedUntilFailure(objs, outcome) ==
    LET texts_to_embed == [i \in 1..Len(objs) |-> EventText(objs[i])]
    IN IF outcome = "ok"
       THEN AttachEmbeddings(objs, embed_texts(texts_to_embed))
       ELSE AttachEmbeddings(objs, SubSeq(embed_texts(texts_to_embed), 1,
                                          Len(objs) - 1))

\* The try block around the batch call: embed_texts(texts_to_embed) either
\* returns a vector for every event or raises before any is assigned.
BatchEmbedded(objs, outcome) ==
    LET texts_to_embed == [i \in 1..Len(objs) |-> EventText(objs[i])]
    IN IF outcome = "ok"
       THEN AttachEmbeddings(objs, embed_texts(texts_to_embed))
       ELSE objs

\* services/repo_events.py: github_webhook.  A failed batch embedding is
\* swallowed; the objects are added and committed either way.
github_webhook(payload) ==
    LET objs == event_objects(payload) IN
    /\ Len(repo_events) + Len(objs) <= MaxEvents
    /\ IF Len(objs) = 0
       THEN /\ calls' = <<>>
            /\ session_new' = <<>>
            /\ UNCHANGED repo_events
       ELSE \E outcome \in EmbedOutcomes :
              LET embedded == BatchEmbedded(objs, outcome)
              IN /\ calls' = <<EmbedCall(outcome)>>
                 /\ session_new' = embedded
                 /\ repo_events' = repo_events
                        \o embedded
    /\ response' = [op |-> "github_webhook", status |-> "ok",
                    ingested |-> Len(objs), payload |-> payload]
    /\ UNCHANGED <<settings_openai_api_key, sessions, conversations, messages, insights,
                   knowledge, knowledge_updated, task_outcomes, weekly_summaries, next_id, gsVars>>

\* Webhook payloads: a push, a pull request, a release, a push that also
\* carries a pull request, and a payload of no known shape.
CommitMessages == {<<"x">>, <<"y", "\n", "z">>}
Commits == [message : CommitMessages]
PullRequests == [title : {<<"t">>}, body : {Null, <<"x">>}]
Releases == [name : {<<>>, <<"t">>}, tag_name : {<<"s">>}, body : {Null}]

WebhookPayloads ==
    {[commits |-> cs] : cs \in SeqsUpTo(Commits, MaxCommits)}
    \cup {[pull_request |-> pr] : pr \in PullRequests}
    \cup {[release |-> rel] : rel \in Releases}
    \cup {[commits |-> <<c>>, pull_request |-> pr] : c \in Commits, pr \in PullRequests}
    \cup {[zen |-> <<"z">>]}

NextWebhook ==
    \/ Idle /\ \E payload \in WebhookPayloads : github_webhook(payload)
    \/ Return

SpecWebhook == Init /\ [][NextWebhook]_vars

\* The response of a webhook call whose payload carries a commits list.
PushDone(r) == r.op = "github_webhook" /\ "commits" \in DOMAIN r.payload

\* The rows a push adds, their types and bodies, and the count returned.
PushPersisted ==
    LET cs == response'.payload.commits
        n == Len(cs)
        old == Len(repo_events)
    IN /\ response'.status = "ok"
       /\ response'.ingested = n
       /\ Len(repo_events') = old + n
       /\ SubSeq(repo_events', 1, old) = repo_events
       /\ \A i \in 1..n :
             /\ repo_events'[old + i].event_type = "commit"
             /\ repo_events'[old + i].body = cs[i].message

\* The embedding of a commit's own text: its first line, a line break, the
\* whole message.
CommitEmbedding(c) == Embed(FirstLine(c.message) \o <<"\n">> \o c.message)

\* The i-th row a push adds carries the embedding of the i-th commit.
PushEmbedded ==
    \A i \in 1..Len(response'.payload.commits) :
        repo_events'[Len(repo_events) + i].embedding =
            CommitEmbedding(response'.payload.commits[i])

PayloadShape(payload) ==
    IF "commits" \in DOMAIN payload THEN "push"
    ELSE IF "pull_request" \in DOMAIN payload THEN "pr"
    ELSE IF "release" \in DOMAIN payload THEN "release"
    ELSE "none"

---------------------------------------------------------------------------
(* services/retrieve.py: the calls and the sections of retrieve.           *)

RetrieveDone == response.op = "retrieve"
EmbedCallsOf(log) == {i \in 1..Len(log) : log[i].fn = "embed"}
StoreCallsOf(log) == {i \in 1..Len(log) : log[i].fn = "query"}

\* C12: in every execution of retrieve the embedding provider is called
\* exactly once, before any per-type search; its vector is the one all five
\* searches use; if the embedding call fails no search is executed.
Thm_C12_SingleEmbedding ==
    RetrieveDone =>
      /\ EmbedCallsOf(calls) = {1}
      /\ calls[1].outcome = "fail" =>
           (StoreCallsOf(calls) = {} /\ response.status = "error")
      /\ calls[1].outcome = "ok" =>
           /\ response.status = "ok"
           /\ {calls[i].table : i \in StoreCallsOf(calls)} =
                {"messages", "insights", "knowledge", "task_outcomes",
                 "weekly_summaries"}
           /\ Cardinality(StoreCallsOf(calls)) = 5
           /\ \A i \in StoreCallsOf(calls) :
                i > 1 /\ calls[i].q_emb = Embed(response.req.query)

\* A retrieve that embedded the query once, ran its five searches and found
\* a message and an insight.
Wit_C12_SingleEmbedding ==
    /\ RetrieveDone
    /\ response.status = "ok"
    /\ Len(calls) = 6
    /\ Len(response.messages) = 1
    /\ Len(response.insights) = 1

\* The request with another project scope.
Rescoped(req, project, include_general) ==
    [req EXCEPT !.project = project, !.include_general = include_general]

\* C13: for a fixed store and query, the knowledge and summaries lists of
\* retrieve are the same for every project and include_general: the lists a
\* request may get are those any request of another scope may get.
Thm_C13_UnscopedSections ==
    (RetrieveDone /\ response.status = "ok") =>
      LET req == response.req
          q_emb == Embed(req.query)
      IN \A project \in Projects, include_general \in BOOLEAN :
           LET other == Rescoped(req, project, include_general)
           IN /\ KnowledgeSection(other, q_emb) = KnowledgeSection(req, q_emb)
              /\ SummariesSection(other, q_emb) = SummariesSection(req, q_emb)
              /\ response.knowledge \in KnowledgeSection(other, q_emb)
              /\ response.summaries \in SummariesSection(other, q_emb)

\* A retrieve scoped to project a, without general records, left out the
\* global insight and still returned the knowledge entry.
Wit_C13_UnscopedSections ==
    /\ RetrieveDone /\ response.status = "ok"
    /\ response.req.project = <<"a">>
    /\ ~response.req.include_general
    /\ response.req.k_insights = 1
    /\ Len(insights) = 1 /\ insights[1].project = Null
    /\ HasEmbedding(insights[1])
    /\ response.insights = <<>>
    /\ Len(response.knowledge) = 1

\* The requests that agree with req on the query, the scope and the budget
\* named, the four other budgets being all zero or all the largest.
BudgetNames == {"k_messages", "k_insights", "k_knowledge", "k_outcomes", "k_summaries"}

SameBut(req, budget) ==
    {[f \in DOMAIN req |->
         IF f \in BudgetNames \ {budget} THEN k ELSE req[f]] : k \in {0, MaxK}}

\* One request per query and scope, every budget at its largest.
ProbeRequests ==
    [query : Queries, project : Projects, include_general : BOOLEAN,
     k_messages : {MaxK}, k_insights : {MaxK}, k_knowledge : {MaxK},
     k_outcomes : {MaxK}, k_summaries : {MaxK}]

\* Each list of the response is one its own query may return, and that is
\* the same whatever the four other budgets are.
OwnBudgetOnly ==
    (RetrieveDone /\ response.status = "ok") =>
      LET req == response.req
          q_emb == Embed(req.query)
      IN /\ response.messages \in MessagesSection(req, q_emb)
         /\ response.insights \in InsightsSection(req, q_emb)
         /\ response.knowledge \in KnowledgeSection(req, q_emb)
         /\ response.task_outcomes \in TaskOutcomesSection(req, q_emb)
         /\ response.summaries \in SummariesSection(req, q_emb)
         /\ \A r \in SameBut(req, "k_messages") :
              MessagesSection(r, q_emb) = MessagesSection(req, q_emb)
         /\ \A r \in SameBut(req, "k_insights") :
              InsightsSection(r, q_emb) = InsightsSection(req, q_emb)
         /\ \A r \in SameBut(req, "k_knowledge") :
              KnowledgeSection(r, q_emb) = KnowledgeSection(req, q_emb)
         /\ \A r \in SameBut(req, "k_outcomes") :
              TaskOutcomesSection(r, q_emb) = TaskOutcomesSection(req, q_emb)
         /\ \A r \in SameBut(req, "k_summaries") :
              SummariesSection(r, q_emb) = SummariesSection(req, q_emb)

\* A step that leaves a type's collection alone leaves alone what its query
\* may return, whatever it does to the other collections.
OwnCollectionOnly ==
    storeVars' # storeVars =>
    \A req \in ProbeRequests :
      LET q_emb == Embed(req.query) IN
      /\ (messages' = messages /\ conversations' = conversations) =>
           MessagesSection(req, q_emb)' = MessagesSection(req, q_emb)
      /\ insights' = insights =>
           InsightsSection(req, q_emb)' = InsightsSection(req, q_emb)
      /\ knowledge' = knowledge =>
           KnowledgeSection(req, q_emb)' = KnowledgeSection(req, q_emb)
      /\ task_outcomes' = task_outcomes =>
           TaskOutcomesSection(req, q_emb)' = TaskOutcomesSection(req, q_emb)
      /\ weekly_summaries' = weekly_summaries =>
           SummariesSection(req, q_emb)' = SummariesSection(req, q_emb)

\* C14: each of the five lists of retrieve depends only on the query, the
\* scope, its own budget and its own collection: another type's budget or
\* records do not change it, so the order in which the five searches run
\* does not either; no list holds a record of another type.
Thm_C14_IndependentSections ==
    [](OwnBudgetOnly) /\ [][OwnCollectionOnly]_vars

\* A retrieve filled two sections from two collections, each within its own
\* budget.
Wit_C14_IndependentSections ==
    /\ RetrieveDone /\ response.status = "ok"
    /\ response.req.k_insights = 1 /\ response.req.k_outcomes = 1
    /\ Len(response.insights) = 1 /\ Len(response.task_outcomes) = 1
    /\ response.req.k_messages = 0 /\ Len(messages) = 0

---------------------------------------------------------------------------
(* services/global_summaries.py: _parse_header_list and the map, reduce    *)
(* and persist steps of generate_global_summary.                           *)

\* str.lower(), on the letters the model's headings are written in
LowerChar(c) == IF c = "P" THEN "p" ELSE IF c = "I" THEN "i" ELSE c
Lower(s) == [i \in 1..Len(s) |-> LowerChar(s[i])]

\* s.startswith(prefix)
StartsWith(s, prefix) ==
    Len(s) >= Len(prefix) /\ SubSeq(s, 1, Len(prefix)) = prefix

\* s.split(sep) for a one-character separator: one part more than there are
\* separators, empty parts included.
RECURSIVE Split(_, _)
Split(s, sep) ==
    IF \A i \in 1..Len(s) : s[i] # sep THEN <<s>>
    ELSE LET i == CHOOSE j \in 1..Len(s) :
                     s[j] = sep /\ \A h \in 1..(j - 1) : s[h] # sep
         IN <<SubSeq(s, 1, i - 1)>> \o Split(SubSeq(s, i + 1, Len(s)), sep)

\* text.splitlines(): no line for an empty text or after a final line break.
splitlines(text) ==
    IF Len(text) = 0 THEN <<>>
    ELSE LET parts == Split(text, "\n")
         IN IF parts[Len(parts)] = <<>> THEN SubSeq(parts, 1, Len(parts) - 1)
            ELSE parts

\* line.split(":", 1): the text before the first colon and the text after
\* it, or the line alone when it has no colon.
SplitOnce(line, sep) ==
    IF \A i \in 1..Len(line) : line[i] # sep THEN <<line>>
    ELSE LET i == CHOOSE j \in 1..Len(line) :
                     line[j] = sep /\ \A h \in 1..(j - 1) : line[h] # sep
         IN <<SubSeq(line, 1, i - 1), SubSeq(line, i + 1, Len(line))>>

\* [x.strip() for x in parts if x.strip()]
RECURSIVE StrippedTokens(_)
StrippedTokens(parts) ==
    IF Len(parts) = 0 THEN <<>>
    ELSE (IF Strip(Head(parts)) = <<>> THEN <<>> ELSE <<Strip(Head(parts))>>)
         \o StrippedTokens(Tail(parts))

\* What _parse_header_list does with the first line that starts with the
\* heading: [1] of a split without a colon raises IndexError.
ParseHeaderLine(line) ==
    LET halves == SplitOnce(line, ":") IN
    IF Len(halves) < 2 THEN [status |-> "raised", value |-> JNull]
    ELSE LET rest == Strip(halves[2]) IN
         IF rest = <<>> THEN [status |-> "ok", value |-> JNull]
         ELSE [status |-> "ok", value |-> JList(StrippedTokens(Split(rest, ",")))]

\* _parse_header_list: null, a list of tokens, or an exception.
RECURSIVE ParseHeaderLines(_, _)
ParseHeaderLines(lines, header) ==
    IF Len(lines) = 0 THEN [status |-> "ok", value |-> JNull]
    ELSE IF StartsWith(Lower(Head(lines)), Lower(header))
         THEN ParseHeaderLine(Head(lines))
         ELSE ParseHeaderLines(Tail(lines), header)

_parse_header_list(text, header) == ParseHeaderLines(splitlines(text), header)

\* The headings of the reduce prompt ("Projects active", "Ideas mentioned"),
\* abbreviated to their first letter.
HeaderProjects == <<"P">>
HeaderIdeas == <<"I">>

\* Lines the LLM may write, and the summary texts made of them.
SummaryLines ==
    {<<"x">>, <<"P", ":", " ", "a", ",", " ", "b">>, <<"p", ":", "a">>,
     <<"P", ":">>, <<"P", ":", " ", ",">>, <<"P">>, <<"I", ":", " ", "b">>}

SummaryTexts ==
    {Join(ls, <<"\n">>) : ls \in SeqsUpTo(SummaryLines, MaxSummaryLines) \ {<<>>}}

\* Which LLM call of the run fails (0: none): the map calls are numbered
\* 1 .. len(chunks), the reduce call len(chunks) + 1.  Without a key the
\* first call raises.
LlmFailAts == IF settings_openai_api_key THEN 0..(Len(gs_chunks) + 1) ELSE {1}

\* The map call of slice i ("Slice {i}/{len(chunks)} ... Transcript:\n{chunk}")
\* and the reduce call over the chunk summaries gathered so far.
MapCall(i, outcome) ==
    [fn |-> "llm", outcome |-> outcome, step |-> "map", slice |-> i,
     chunk |-> gs_chunks[i]]

ReduceCall(outcome) ==
    [fn |-> "llm", outcome |-> outcome, step |-> "reduce", parts |-> Len(gs_chunks)]

\* The map calls issued from the last chunk to the first.
LlmCallsLastChunkFirst(n, fail_at) ==
    [i \in 1..n |->
        IF i <= Len(gs_chunks)
        THEN MapCall(Len(gs_chunks) + 1 - i, IF i = fail_at THEN "fail" ELSE "ok")
        ELSE ReduceCall(IF i = fail_at THEN "fail" ELSE "ok")]

\* The first n LLM calls of a run: "for i, chunk in enumerate(chunks, 1)"
\* awaits one call per chunk, the reduce call follows the loop.
LlmCalls(n, fail_at) ==
    [i \in 1..n |->
        IF i <= Len(gs_chunks)
        THEN MapCall(i, IF i = fail_at THEN "fail" ELSE "ok")
        ELSE ReduceCall(IF i = fail_at THEN "fail" ELSE "ok")]

GlobalSummaryFailed(error) ==
    [op |-> "generate_global_summary", status |-> "error", error |-> error]

\* ",".join(xs) if xs else None
JoinedOrNone(parsed) ==
    IF parsed.t = "array" /\ Len(parsed.v) > 0 THEN Join(parsed.v, <<",">>) ELSE Null

\* The weekly summary persisted although an LLM call failed.
SummaryRowsOnFailurePersisted == Append(weekly_summaries,
                                        [summary |-> <<>>, projects_active |-> Null,
                                         ideas_mentioned |-> Null,
                                         embedding |-> NoEmbedding])

\* The weekly_summaries table after a run in which an LLM call raised.
SummaryRowsOnFailure == weekly_summaries

\* generate_global_summary from the map step on: one LLM call per chunk, the
\* reduce call, the two parses, the embedding call, add and commit.
GsSummarize ==
    /\ gs_pc = "chunked"
    /\ gs_pc' = "done"
    /\ \E fail_at \in LlmFailAts :
         IF fail_at # 0
         THEN /\ calls' = LlmCalls(fail_at, fail_at)
              /\ response' = GlobalSummaryFailed("llm_failed")
              /\ weekly_summaries' = SummaryRowsOnFailure
         ELSE \E summary_text \in SummaryTexts :
                LET llm_calls == LlmCalls(Len(gs_chunks) + 1, 0)
                    projects_active == _parse_header_list(summary_text, HeaderProjects)
                    ideas_mentioned == _parse_header_list(summary_text, HeaderIdeas)
                IN IF projects_active.status = "raised" \/ ideas_mentioned.status = "raised"
                   THEN /\ calls' = llm_calls
                        /\ response' = GlobalSummaryFailed("index_error")
                        /\ UNCHANGED weekly_summaries
                   ELSE \E outcome \in EmbedOutcomes :
                          /\ calls' = Append(llm_calls, EmbedCall(outcome))
                          /\ IF outcome = "ok"
                             THEN /\ weekly_summaries' = Append(weekly_summaries,
                                       [summary |-> summary_text,
                                        projects_active |-> JoinedOrNone(projects_active.value),
                                        ideas_mentioned |-> JoinedOrNone(ideas_mentioned.value),
                                        embedding |-> embed_texts(<<summary_text>>)[1]])
                                  /\ response' =
                                       [op |-> "generate_global_summary", status |-> "ok",
                                        error |-> "none",
                                        summary |-> summary_text,
                                        projects_active |-> projects_active.value,
                                        ideas_mentioned |-> ideas_mentioned.value,
                                        messages_considered |-> Len(gs_lines),
                                        chunks |-> Len(gs_chunks)]
                             ELSE /\ UNCHANGED weekly_summaries
                                  /\ response' = GlobalSummaryFailed("embedding_failed")
    /\ UNCHANGED <<settings_openai_api_key, sessions, conversations, messages, insights,
                   knowledge, knowledge_updated, task_outcomes, repo_events, next_id, session_new,
                   gs_lines, gs_chunk_chars, gs_chunks, gs_buf, gs_buf_len, gs_i>>

\* Runs of the whole handler over windows of zero to MaxLines one-character
\* messages.
InitGlobal ==
    /\ InitSummary
    /\ \A i \in 1..Len(gs_lines) : gs_lines[i] = <<"a">>

NextGlobal == GsLoop \/ GsFlush \/ GsSummarize

SpecGlobal == InitGlobal /\ [][NextGlobal]_vars

GlobalDone == response.op = "generate_global_summary"
LlmCallFailed == \E i \in 1..Len(calls) : calls[i].fn = "llm" /\ calls[i].outcome = "fail"

\* C15: if an LLM call of generate_global_summary fails (a map call, the
\* reduce call, without a credential, with a window of zero messages), the
\* failure is reported to the caller and no summary record is persisted.
Thm_C15_LlmFailureReported ==
    [][(GlobalDone' /\ LlmCallFailed') =>
         /\ response'.status = "error"
         /\ response'.error = "llm_failed"
         /\ weekly_summaries' = weekly_summaries
         /\ EmbedCallsOf(calls') = {}]_vars

\* Two chunks were summarized and the reduce call then failed.
Wit_C15_LlmFailureReported ==
    /\ GlobalDone
    /\ Len(gs_chunks) = 2
    /\ Len(calls) = 3
    /\ calls[1].outcome = "ok" /\ calls[2].outcome = "ok"
    /\ calls[3].fn = "llm" /\ calls[3].outcome = "fail"
    /\ response.status = "error"

\* The lines of a text that start with the heading, case-insensitively.
MatchingLines(text, header) ==
    {i \in 1..Len(splitlines(text)) :
        StartsWith(Lower(splitlines(text)[i]), Lower(header))}

\* The remainder after the colon of the first matching line, trimmed.
FirstRemainder(text, header) ==
    LET i == CHOOSE j \in MatchingLines(text, header) :
                 \A h \in MatchingLines(text, header) : j <= h
        halves == SplitOnce(splitlines(text)[i], ":")
    IN IF Len(halves) = 2 THEN Strip(halves[2]) ELSE <<>>

\* What the claim expects of one parsed heading: null without a matching line
\* or with an empty remainder, otherwise a list that is not empty.
ParsedAsClaimed(text, header, parsed) ==
    IF MatchingLines(text, header) = {} \/ FirstRemainder(text, header) = <<>>
    THEN parsed = JNull
    ELSE /\ parsed.t = "array"
         /\ Len(parsed.v) > 0
         /\ parsed.v = StrippedTokens(Split(FirstRemainder(text, header), ","))

\* C20 (as stated): _parse_header_list returns null when no line starts with
\* the heading or the remainder after the colon is empty, otherwise the
\* trimmed non-empty tokens of the first matching line; it never returns an
\* empty list, and the stored projects_active / ideas_mentioned is null
\* exactly when the value returned to the caller is null.
Claim_C20_ParseHeaderList ==
    GlobalDone =>
      /\ response.error # "index_error"
      /\ response.status = "ok" =>
           LET row == weekly_summaries[Len(weekly_summaries)] IN
           /\ ParsedAsClaimed(response.summary, HeaderProjects, response.projects_active)
           /\ ParsedAsClaimed(response.summary, HeaderIdeas, response.ideas_mentioned)
           /\ (row.projects_active = Null) <=> (response.projects_active = JNull)
           /\ (row.ideas_mentioned = Null) <=> (response.ideas_mentioned = JNull)

---------------------------------------------------------------------------
(* Lookups by id.  A path or body id is a text; primary keys are UUIDs,    *)
(* modelled by the positive integers, written as their decimal digit.      *)

\* A handler that reads one row by id and returns it, or 404.
GetById(op, name, table, id) ==
    /\ \E outcome \in SelectOutcomes(id) :
         /\ calls' = <<SelectCall(name, id, outcome)>>
         /\ response' =
              IF outcome = "raised" THEN Unhandled(op, id, "statement_error")
              ELSE IF KeyedRows(table, id) = {} THEN NotFoundId(op, id)
              ELSE [op |-> op, status |-> "ok", id |-> id,
                    row |-> table[CHOOSE i \in KeyedRows(table, id) : TRUE]]
    /\ UNCHANGED <<settings_openai_api_key, sessions, storeVars, gsVars, session_new>>

\* services/knowledge.py: get_knowledge
get_knowledge(entry_id) == GetById("get_knowledge", "knowledge", knowledge, entry_id)

\* services/insights.py: get_insight
get_insight(insight_id) == GetById("get_insight", "insights", insights, insight_id)

\* services/summaries.py: get_weekly_summary
get_weekly_summary(summary_id) ==
    GetById("get_weekly_summary", "weekly_summaries", weekly_summaries, summary_id)

\* The table without its row at position i.
RemoveAt(table, i) ==
    [j \in 1..(Len(table) - 1) |-> IF j < i THEN table[j] ELSE table[j + 1]]

\* services/knowledge.py: delete_knowledge
delete_knowledge(entry_id) ==
    /\ \E outcome \in SelectOutcomes(entry_id) :
         /\ calls' = <<SelectCall("knowledge", entry_id, outcome)>>
         /\ IF outcome = "raised"
            THEN /\ response' = Unhandled("delete_knowledge", entry_id, "statement_error")
                 /\ UNCHANGED <<knowledge, knowledge_updated>>
            ELSE IF KeyedRows(knowledge, entry_id) = {}
            THEN /\ response' = NotFoundId("delete_knowledge", entry_id)
                 /\ UNCHANGED <<knowledge, knowledge_updated>>
            ELSE /\ knowledge' = RemoveAt(knowledge,
                        CHOOSE i \in KeyedRows(knowledge, entry_id) : TRUE)
                 /\ knowledge_updated' = Without(knowledge_updated, UuidOf(entry_id))
                 /\ response' = [op |-> "delete_knowledge", status |-> "ok",
                                 id |-> entry_id, deleted |-> TRUE]
    /\ UNCHANGED <<settings_openai_api_key, sessions, conversations, messages, insights,
                   task_outcomes, weekly_summaries, repo_events, next_id, gsVars,
                   session_new>>

ReassignRequests == [conversation_id : IdTexts, project : RecordProjects]

\* services/project.py: reassign_conversation
reassign_conversation(payload) ==
    /\ IF ~IsUuid(payload.conversation_id)
       THEN /\ calls' = <<>>
            /\ response' = [op |-> "reassign_conversation", status |-> "error",
                            error |-> "invalid_id", id |-> payload.conversation_id]
            /\ UNCHANGED conversations
       ELSE /\ calls' = <<SelectCall("conversations", payload.conversation_id, "ok")>>
            /\ IF KeyedRows(conversations, payload.conversation_id) = {}
               THEN /\ response' = NotFoundId("reassign_conversation",
                                              payload.conversation_id)
                    /\ UNCHANGED conversations
               ELSE LET i == CHOOSE j \in KeyedRows(conversations,
                                                    payload.conversation_id) : TRUE
                    IN /\ conversations' = [conversations EXCEPT
                                               ![i].project = payload.project]
                       /\ response' = [op |-> "reassign_conversation",
                                       status |-> "ok",
                                       id |-> payload.conversation_id,
                                       project |-> payload.project]
    /\ UNCHANGED <<settings_openai_api_key, sessions, messages, insights, knowledge, knowledge_updated,
                   task_outcomes, weekly_summaries, repo_events, next_id, gsVars,
                   session_new>>

\* The messages of a conversation, in stored order.
MessagesOf(cid) ==
    LET F[i \in 0..Len(messages)] ==
          IF i = 0 THEN <<>>
          ELSE IF messages[i].conversation_id = cid
               THEN Append(F[i - 1], [role |-> messages[i].role,
                                      content |-> messages[i].content])
               ELSE F[i - 1]
    IN F[Len(messages)]

\* services/chat.py: get_conversation; scalar_one() raises NoResultFound when
\* the select matches no row.
get_conversation(conversation_id) ==
    /\ \E outcome \in SelectOutcomes(conversation_id) :
         /\ calls' = <<SelectCall("conversations", conversation_id, outcome)>>
         /\ response' =
              IF outcome = "raised"
              THEN Unhandled("get_conversation", conversation_id, "statement_error")
              ELSE IF KeyedRows(conversations, conversation_id) = {}
              THEN Unhandled("get_conversation", conversation_id, "no_result_found")
              ELSE LET conv == conversations[CHOOSE i \in
                                   KeyedRows(conversations, conversation_id) : TRUE]
                   IN [op |-> "get_conversation", status |-> "ok",
                       id |-> conversation_id, project |-> conv.project,
                       messages |-> MessagesOf(conv.id)]
    /\ UNCHANGED <<settings_openai_api_key, sessions, storeVars, gsVars, session_new>>

LookupConversations ==
    {p \in ConversationPayloads : p.project = Null}

NextLookup ==
    \/ Idle /\ \E payload \in LookupConversations : create_conversation(payload)
    \/ Idle /\ next_id <= MaxStore /\ \E req \in KnowledgeCreates : create_knowledge(req)
    \/ Idle /\ \E req \in InsightCreates : create_insight(req)
    \/ Idle /\ \E req \in WeeklySummaryCreates : create_weekly_summary(req)
    \/ Idle /\ \E id \in IdTexts : get_knowledge(id)
    \/ Idle /\ \E id \in IdTexts, req \in KnowledgeCreates :
                 update_knowledge(id, req)
    \/ Idle /\ \E id \in IdTexts : delete_knowledge(id)
    \/ Idle /\ \E id \in IdTexts : get_insight(id)
    \/ Idle /\ \E id \in IdTexts : get_weekly_summary(id)
    \/ Idle /\ \E payload \in ReassignRequests : reassign_conversation(payload)
    \/ Idle /\ \E id \in IdTexts : get_conversation(id)
    \/ Return

SpecLookup == Init /\ [][NextLookup]_vars

LookupOps ==
    {"get_knowledge", "update_knowledge", "delete_knowledge", "get_insight",
     "get_weekly_summary", "reassign_conversation", "get_conversation"}

LookupTable(op) ==
    CASE op \in {"get_knowledge", "update_knowledge", "delete_knowledge"} -> knowledge
      [] op = "get_insight" -> insights
      [] op = "get_weekly_summary" -> weekly_summaries
      [] op \in {"reassign_conversation", "get_conversation"} -> conversations

\* C16 (as stated): every lookup by the id of a record that does not exist
\* ends in a not-found outcome the client sees, makes no embedding call and
\* leaves the store unchanged.
Claim_C16_NotFound ==
    [][(/\ response'.op \in LookupOps
        /\ IsUuid(response'.id)
        /\ KeyedRows(LookupTable(response'.op), response'.id) = {})
       => /\ response'.status = "error"
          /\ response'.error = "not_found"
          /\ EmbedCallsOf(calls') = {}
          /\ storeVars' = storeVars]_vars

IdOps ==
    {"reassign_conversation", "get_knowledge", "update_knowledge",
     "delete_knowledge", "get_conversation"}

\* C17 (as stated): every operation that takes a record id answers an id of
\* invalid format with a validation failure, and no statement has been sent
\* to the store by then.
Claim_C17_InvalidId ==
    (response.op \in IdOps /\ ~IsUuid(response.id)) =>
      /\ response.status = "error"
      /\ response.error = "invalid_id"
      /\ \A i \in 1..Len(calls) : calls[i].fn # "select"

\* C18 (as stated): every per-type search and every section of retrieve runs
\* its store query with a limit that is positive and below a fixed cap; the
\* largest k a request of the model carries stands for a k above the cap.
Claim_C18_LimitBounds ==
    \A i \in StoreCallsOf(calls) :
        calls[i].limit > 0 /\ calls[i].limit < MaxK

---------------------------------------------------------------------------
(* Auto-extraction of an empty transcript; the shape of the reduced text.  *)

\* A content that is absent or made of whitespace only.
BlankContent(c) == c = Null \/ \A i \in 1..Len(c) : c[i] \in {" ", "\n"}

NoCollaboratorCall == \A i \in 1..Len(calls) : calls[i].fn \notin {"llm", "embed"}

\* C21: auto_extract_from_conversation on a message list in which no message
\* has content left after trimming returns created = 0, calls neither the
\* LLM nor the embedding provider and adds no record.
Thm_C21_EmptyTranscript ==
    [][(/\ ExtractDone'
        /\ \A i \in 1..Len(response'.messages) :
              BlankContent(response'.messages[i].content))
       => /\ response'.status = "ok"
          /\ response'.created = 0
          /\ Len(calls') = 0
          /\ session_new' = <<>>
          /\ storeVars' = storeVars]_vars

\* An extraction over one message whose content is a single space.
Wit_C21_EmptyTranscript ==
    /\ ExtractDone
    /\ Len(response.messages) = 1
    /\ response.messages[1].content = <<" ">>
    /\ response.created = 0
    /\ NoCollaboratorCall

\* C30 (as stated): whatever the reduced summary text, a line that starts
\* with a heading but has no colon included, _parse_header_list returns a
\* value without raising: generate_global_summary never fails after every
\* LLM call has succeeded and before the embedding call.
Claim_C30_HeaderWithoutColon ==
    (/\ GlobalDone
     /\ Len(calls) > 0
     /\ \A i \in 1..Len(calls) : calls[i].fn = "llm" /\ calls[i].outcome = "ok")
    => response.status = "ok"

---------------------------------------------------------------------------
(* One scope predicate for the scoped sections of retrieve.                *)

\* A returned list is what a query over the eligible rows gives under budget k.
QueryOver(list, eligible, k) ==
    /\ ListsOf(list) \subseteq eligible
    /\ Len(list) = Min(k, Cardinality(eligible))

\* The three scoped sections all filtered by the request's project ...
AllRestricted(r) ==
    /\ QueryOver(r.messages, EligibleMessages(r.req), r.req.k_messages)
    /\ QueryOver(r.insights, EligibleScoped(insights, r.req), r.req.k_insights)
    /\ QueryOver(r.task_outcomes, EligibleScoped(task_outcomes, r.req),
                 r.req.k_outcomes)

\* ... or none of them filtered.
NoneRestricted(r) ==
    /\ QueryOver(r.messages, EligibleAll(messages), r.req.k_messages)
    /\ QueryOver(r.insights, EligibleAll(insights), r.req.k_insights)
    /\ QueryOver(r.task_outcomes, EligibleAll(task_outcomes), r.req.k_outcomes)

\* C23 (as stated): for every retrieve request and every project, the empty
\* string included, the messages, insights and task-outcome searches apply
\* the same scope predicate: all three are restricted to the project or none
\* is, and none is when the project is unset.
Claim_C23_SameScopePredicate ==
    RetrieveOk =>
      IF response.req.project = Null
      THEN NoneRestricted(response)
      ELSE AllRestricted(response) \/ NoneRestricted(response)

---------------------------------------------------------------------------
(* Searches called without query text.                                     *)

InsightListings ==
    [query : {Null}, project : Projects, type : {NoneEnum, "lesson"},
     include_global : BOOLEAN, k : Budgets]
KnowledgeListings == [query : {Null, <<>>}, category : {NoneEnum, "pattern"}, k : Budgets]
TaskOutcomeListings ==
    [query : {Null}, project : Projects, result : {NoneEnum, "success"}, k : Budgets]

ListedKnowledge == {r \in KnowledgeRequests : r.confidence = 8}

NextListing ==
    \/ Idle /\ \E req \in ListedKnowledge : create_knowledge(req)
    \/ Idle /\ \E req \in InsightCreates : create_insight(req)
    \/ Idle /\ \E req \in TaskOutcomeCreates : create_task_outcome(req)
    \/ Idle /\ \E id \in KeyTexts, req \in ListedKnowledge : update_knowledge(id, req)
    \/ Idle /\ \E req \in InsightListings : search_insights(req)
    \/ Idle /\ \E req \in KnowledgeListings : search_knowledge(req)
    \/ Idle /\ \E req \in TaskOutcomeListings : search_task_outcomes(req)
    \/ Return

SpecListing == Init /\ [][NextListing]_vars

ListingDone(op) ==
    response.op = op /\ response.status = "ok" /\ ~Truthy(response.req.query)

\* A filter value that is set selects the rows carrying it.
SetFilter(wanted, value) == wanted # Null => value = wanted
SetEnum(wanted, value) == wanted # NoneEnum => value = wanted

\* C25 (as stated): a per-type search called without query text makes no
\* embedding call, keeps the records with a null embedding eligible, applies
\* the scope and type filters before the limit and orders by creation time
\* descending; an updated KnowledgeEntry keeps its place among the entries
\* created later.
Claim_C25_ListingByCreation ==
    /\ (ListingDone("search_insights") \/ ListingDone("search_knowledge")
        \/ ListingDone("search_task_outcomes")) => EmbedCallsOf(calls) = {}
    /\ ListingDone("search_insights") =>
         response.hits =
           Listing(NewestFirst(insights),
                   LAMBDA i : /\ response.req.project # Null =>
                                   InScope(response.req.project,
                                           response.req.include_global,
                                           insights[i].project)
                              /\ SetEnum(response.req.type, insights[i].type),
                   response.req.k)
    /\ ListingDone("search_knowledge") =>
         response.hits =
           Listing(KnowledgeNewestFirst,
                   LAMBDA i : SetEnum(response.req.category, knowledge[i].category),
                   response.req.k)
    /\ ListingDone("search_task_outcomes") =>
         response.hits =
           Listing(NewestFirst(task_outcomes),
                   LAMBDA i : /\ SetFilter(response.req.project,
                                           task_outcomes[i].project)
                              /\ SetEnum(response.req.result,
                                           task_outcomes[i].result),
                   response.req.k)

---------------------------------------------------------------------------
(* Every write path together.                                              *)

WritePushes == {[commits |-> <<[message |-> <<"x">>]>>]}

\* What the LLM answers in these runs: no JSON, or one item of each kind.
WrittenTexts ==
    {NotJson,
     JObj([insights |-> JList(<<GoodInsight>>),
           knowledge |-> JList(<<KnowledgeItem(JNum(3))>>),
           task_outcomes |-> JList(<<GoodOutcome>>)]),
     JObj([insights |-> JList(<<OddInsight>>),
           knowledge |-> JNull,
           task_outcomes |-> JList(<<CausedOutcome>>)])}

WrittenInsights == {r \in InsightCreates : r.project = Null /\ r.content = <<"x">>}

WrittenOutcomes ==
    [project : {Null}, result : TaskResults, task_description : {<<"x">>},
     cause : {Null, <<"c">>}, fix : {Null}, recommendation : {Null}]

WrittenConversations == {p \in ConversationPayloads : p.messages[1].content = <<"x">>}

NextWrites ==
    \/ Idle /\ \E payload \in WrittenConversations : create_conversation(payload)
    \/ Idle /\ next_id <= MaxStore /\ \E req \in KnowledgeCreates : create_knowledge(req)
    \/ Idle /\ \E req \in WrittenInsights : create_insight(req)
    \/ Idle /\ \E req \in WrittenOutcomes : create_task_outcome(req)
    \/ Idle /\ \E req \in WeeklySummaryCreates : create_weekly_summary(req)
    \/ Idle /\ \E id \in KeyTexts, req \in KnowledgeCreates : update_knowledge(id, req)
    \/ Idle /\ \E id \in KeyTexts : delete_knowledge(id)
    \/ Idle /\ \E payload \in ReassignRequests : reassign_conversation(payload)
    \/ Idle /\ \E payload \in WritePushes : github_webhook(payload)
    \/ Idle /\ \E conversation \in ExtractConversations, text \in WrittenTexts :
                 auto_extract_from_conversation(
                     conversation, <<[role |-> "user", content |-> <<"x">>]>>,
                     "ok", text, 0)
    \/ Return

SpecWrites == Init /\ [][NextWrites]_vars

\* The records of a kind the extraction added to the session, which the
\* commit of that session stores.
Added(kind) ==
    {session_new[i] : i \in {j \in 1..Len(session_new) :
                                /\ "kind" \in DOMAIN session_new[j]
                                /\ session_new[j].kind = kind}}

\* services/schemas.py and models/chat.py: the declared sets.
RoleEnum == {"user", "assistant", "system"}
CategoryEnum == {"preference", "pattern", "entity", "insight"}
InsightTypeEnum == {"lesson", "mistake", "retrospective", "playbook", "idea"}
ResultEnum == {"success", "partial", "failure"}
EventTypeEnum == {"commit", "pr", "release", "tag"}

\* C26 (as stated): after any sequence of create endpoints, update_knowledge,
\* webhook ingests and auto-extractions, the enumerated field of every record
\* written holds a value of its declared set.
Claim_C26_EnumeratedFields ==
    /\ \A r \in ListsOf(messages) : r.role \in RoleEnum
    /\ \A r \in ListsOf(knowledge) \cup Added("knowledge") : r.category \in CategoryEnum
    /\ \A r \in ListsOf(insights) \cup Added("insight") : r.type \in InsightTypeEnum
    /\ \A r \in ListsOf(task_outcomes) \cup Added("task_outcome") :
          r.result \in ResultEnum
    /\ \A r \in ListsOf(repo_events) : r.event_type \in EventTypeEnum

\* C29 (as stated): the embedding of every KnowledgeEntry and TaskOutcome
\* written is the embedding of one fixed text over the record's fields,
\* whichever path wrote it: create_knowledge / update_knowledge /
\* create_task_outcome or the auto-extraction.
Claim_C29_OneEmbeddingText ==
    /\ \/ \A r \in ListsOf(knowledge) \cup Added("knowledge") :
             r.embedding = Embed(r.subject \o <<":", " ">> \o r.content)
       \/ \A r \in ListsOf(knowledge) \cup Added("knowledge") :
             r.embedding = Embed(r.subject \o <<"\n">> \o r.content)
    /\ \/ \A r \in ListsOf(task_outcomes) \cup Added("task_outcome") :
             r.embedding = Embed(TaskOutcomeEmbedText(r))
       \/ \A r \in ListsOf(task_outcomes) \cup Added("task_outcome") :
             r.embedding = Embed(r.task_description)


---------------------------------------------------------------------------
(* The order of the collaborator calls of generate_global_summary.         *)

GlobalSucceeded == GlobalDone /\ response.status = "ok"

\* The positions of the map calls in the call log.
MapCallsMade == {i \in 1..Len(calls) : calls[i].fn = "llm" /\ calls[i].step = "map"}

---------------------------------------------------------------------------
(* The webhook's batch embedding.                                          *)

WebhookDone(r) == r.op = "github_webhook"

\* The rows the step added to repo_events.
NewEvents == SubSeq(repo_events', Len(repo_events) + 1, Len(repo_events'))

---------------------------------------------------------------------------
(* Reassignment of a conversation, among the other operations.             *)

\* Conversations enter the store as general ones; a project is given to
\* them by reassignment only.
GeneralConversations == {p \in WrittenConversations : p.project = Null}

ScopedSearches ==
    [query : Queries, project : {<<"a">>}, include_general : BOOLEAN, k : {1, MaxK}]

NextReassign ==
    \/ Idle /\ \E payload \in GeneralConversations : create_conversation(payload)
    \/ Idle /\ \E payload \in ReassignRequests : reassign_conversation(payload)
    \/ Idle /\ \E payload \in ScopedSearches : search_messages(payload)
    \/ Idle /\ next_id <= MaxStore /\ \E req \in KnowledgeCreates : create_knowledge(req)
    \/ Idle /\ \E id \in KeyTexts, req \in KnowledgeCreates : update_knowledge(id, req)
    \/ Idle /\ \E id \in KeyTexts : delete_knowledge(id)
    \/ Idle /\ \E req \in WrittenInsights : create_insight(req)
    \/ Idle /\ \E req \in WrittenOutcomes : create_task_outcome(req)
    \/ Idle /\ \E req \in WeeklySummaryCreates : create_weekly_summary(req)
    \/ Idle /\ \E payload \in WritePushes : github_webhook(payload)
    \/ Idle /\ \E id \in KeyTexts : get_conversation(id)
    \/ Return

SpecReassign == Init /\ [][NextReassign]_vars

\* The step is a call of the operation.
Called(op) == Idle /\ response'.op = op

\* The stored messages that a search with this project and flag is to return,
\* by the project their conversation has now.
MessagesInScope(project, include_general) ==
    {i \in 1..Len(messages) :
        /\ messages[i].embedding # NoEmbedding
        /\ InScope(project, include_general, ProjectOfMessageRow(i))}

---------------------------------------------------------------------------
(* update_knowledge requests in flight together.  Each request has its own *)
(* AsyncSession (core/database.py: get_db); the handler yields at its      *)
(* three awaits: the select, the embedding call and the commit.            *)

\* The bodies of the concurrent requests.
UpdateBodies ==
    [category : Categories, subject : {<<"s">>, <<"t">>}, content : Contents,
     confidence : {8}]

\* The entry the requests are about, as first stored.
FirstEntries == {r \in UpdateBodies : r.category = "preference" /\ r.subject = <<"s">>}

SessionsOpen == {k \in 1..Len(sessions) : sessions[k].pc \in {"read", "embedded"}}

\* "result = await db.execute(select(...)); entry = result.scalar_one_or_none()":
\* the session keeps the entry as it was read.
UkRead(entry_id, req) ==
    /\ Len(sessions) < MaxSessions
    /\ \E selected \in SelectOutcomes(entry_id) :
         IF selected = "raised"
         THEN /\ calls' = <<SelectCall("knowledge", entry_id, selected)>>
              /\ response' = Unhandled("update_knowledge", entry_id, "statement_error")
              /\ UNCHANGED sessions
         ELSE IF KeyedRows(knowledge, entry_id) = {}
         THEN /\ calls' = <<SelectCall("knowledge", entry_id, selected)>>
              /\ response' = NotFoundId("update_knowledge", entry_id)
              /\ UNCHANGED sessions
         ELSE LET i == CHOOSE j \in KeyedRows(knowledge, entry_id) : TRUE
              IN /\ sessions' = Append(sessions,
                        [entry_id |-> entry_id, req |-> req, entry |-> knowledge[i],
                         pc |-> "read", embedding |-> NoEmbedding])
                 /\ UNCHANGED <<response, calls>>
    /\ UNCHANGED <<settings_openai_api_key, storeVars, gsVars, session_new>>

\* "embeddings = await embed_texts([embed_text])": a failure ends the request
\* before anything is assigned.
UkEmbed(k) ==
    /\ sessions[k].pc = "read"
    /\ \E outcome \in EmbedOutcomes :
         IF outcome = "ok"
         THEN /\ sessions' = [sessions EXCEPT
                     ![k].pc = "embedded",
                     ![k].embedding =
                         embed_texts(<<KnowledgeEmbedText(sessions[k].req)>>)[1]]
              /\ UNCHANGED <<response, calls>>
         ELSE /\ sessions' = [sessions EXCEPT ![k].pc = "failed"]
              /\ calls' = <<SelectCall("knowledge", sessions[k].entry_id, "ok"),
                            EmbedCall(outcome)>>
              /\ response' = [op |-> "update_knowledge", status |-> "error",
                              error |-> "embedding_failed",
                              id |-> sessions[k].entry_id]
    /\ UNCHANGED <<settings_openai_api_key, storeVars, gsVars, session_new>>

\* The flush writing every column, changed or not.
FlushedWholeRow(row, entry, req, embedding, write_embedding) ==
    [id |-> row.id, category |-> req.category, subject |-> req.subject,
     content |-> req.content, confidence |-> req.confidence,
     embedding |-> embedding]

\* The UPDATE that "await db.commit()" flushes for the six assignments: the
\* session's unit of work sets the columns whose assigned value differs from
\* the value the session loaded, and leaves the other columns of the row as
\* they are in the table.  A vector equal to the loaded one may or may not be
\* written.
Flushed(row, entry, req, embedding, write_embedding) ==
    [id |-> row.id,
     category |-> IF req.category # entry.category THEN req.category
                  ELSE row.category,
     subject |-> IF req.subject # entry.subject THEN req.subject ELSE row.subject,
     content |-> IF req.content # entry.content THEN req.content ELSE row.content,
     confidence |-> IF req.confidence # entry.confidence THEN req.confidence
                    ELSE row.confidence,
     embedding |-> IF embedding # entry.embedding \/ write_embedding
                   THEN embedding ELSE row.embedding]

\* "entry.category = req.category ... await db.commit()": the assignments and
\* the commit run without an await between them.
UkCommit(k) ==
    /\ sessions[k].pc = "embedded"
    /\ LET s == sessions[k]
           i == CHOOSE j \in 1..Len(knowledge) : knowledge[j].id = s.entry.id
       IN /\ \E write_embedding \in BOOLEAN :
               knowledge' = [knowledge EXCEPT ![i] =
                   Flushed(knowledge[i], s.entry, s.req, s.embedding,
                           write_embedding)]
          /\ knowledge_updated' = Touched(knowledge_updated, s.entry.id)
          /\ sessions' = [sessions EXCEPT ![k].pc = "done"]
          /\ calls' = <<SelectCall("knowledge", s.entry_id, "ok"), EmbedCall("ok")>>
          /\ response' = [op |-> "update_knowledge", status |-> "ok",
                          id |-> s.entry_id, req |-> s.req]
    /\ UNCHANGED <<settings_openai_api_key, conversations, messages, insights,
                   task_outcomes, weekly_summaries, repo_events, next_id, gsVars,
                   session_new>>

NextConcurrent ==
    \/ Idle /\ knowledge = <<>> /\ \E req \in FirstEntries : create_knowledge(req)
    \/ \E entry_id \in IdTexts, req \in UpdateBodies : UkRead(entry_id, req)
    \/ \E k \in 1..Len(sessions) : UkEmbed(k)
    \/ \E k \in 1..Len(sessions) : UkCommit(k)
    \/ Return

SpecConcurrent == Init /\ [][NextConcurrent]_vars

\* The requests that committed an update of the row.
Committed(row) ==
    {k \in 1..Len(sessions) :
        sessions[k].pc = "done" /\ sessions[k].entry.id = row.id}

\* The row holds the fields of this request, with the embedding of its text.
StoredBy(row, req) ==
    /\ row.category = req.category
    /\ row.subject = req.subject
    /\ row.content = req.content
    /\ row.confidence = req.confidence
    /\ row.embedding = Embed(req.subject \o <<":", " ">> \o req.content)

\* C22 (as stated): when two update_knowledge requests for the same id have
\* run concurrently and both are over, the stored category, subject, content,
\* confidence and embedding all come from one and the same request, and the
\* stored embedding is that of the stored subject and content.
Claim_C22_ConcurrentUpdates ==
    SessionsOpen = {} =>
      \A i \in 1..Len(knowledge) :
         Committed(knowledge[i]) # {} =>
           /\ \E k \in Committed(knowledge[i]) : StoredBy(knowledge[i], sessions[k].req)
           /\ knowledge[i].embedding =
                 Embed(knowledge[i].subject \o <<":", " ">> \o knowledge[i].content)
=============================================================================
